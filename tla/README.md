# CrucibleC verification project

TLA+ models, TLC runs and TLAPS proofs kept beside CrucibleC. Paths such as
`IronCLib/...` are relative to the repository. `PROJECT.json` is the machine-readable
companion: components, runs, hazards at their lines, theorems, and for every
definition of a module the lines of source it translates.

Contents: [1 The system](#1-the-system) ·
[2 Modules](#2-modules-and-how-they-correspond-to-the-code) ·
[3 Runs](#3-runs-what-they-check-and-what-they-show) ·
[4 Fairness](#4-fairness) · [5 Proofs](#5-proofs) ·
[6 Seen while modelling](#6-seen-while-modelling) ·
[7 What is left out](#7-abstractions-and-what-is-left-out) · [8 Plan](#8-plan)

## 1 The system

CrucibleC has two large parts. **IronCLib** is a header-only C library. **WorkshopC** is a
clang-tooling program that checks C code for ownership, lifetimes and naming. Two more directories
hold a transpiler prototype (AlloyC) and an announcement (SteelCLib).

### 1.1 IronCLib

| Component | State it keeps | Operations | What is hard | What makes it correct |
|---|---|---|---|---|
| `ic_mutex`, `ic_condition_variable`, `ic_atomic` (`ic_concurrency.h`, `ic_concurrency_signal.h`) | the backend's object, an initialised flag | init, lock, trylock, unlock, destroy; wait, notify one or all | wakeups nobody asked for; a wait that fails | a wait releases the mutex and sleeps atomically |
| `ic_task` (`ic_concurrency.h`) | running and joined flags, result, the thread | init, join, is_running, get_result | flags written by another thread and read in two steps; a join that fails; a structure used again | one join per thread; the result after a join is the task's |
| `ic_gate` (`ic_concurrency_signal.h`) | mutex, condition variable, `uint32_t` permits | init, wait, signal_one, destroy | check and sleep against signal; overtaking; counter wraps around | a counting semaphore: no permit and no wakeup is lost |
| `ic_broadcast` (`ic_concurrency_signal.h`) | mutex, condition variable, a flag | init, wait, signal_all, reset, destroy | a reset between a signal and the wakeups | nobody passes without a signal, nobody sleeps beside one that stays |
| `TaskPool` (`IronCLib/docs/premade/parallel_work.h`) | ring buffer, atomic state and active count, mutex, gate, workers | init, submit, close(Drain or Abort, timeout), destroy | atomics written without the mutex that is held to read them; counting permits on the way out; failing init; timeouts | FIFO, every accepted job runs once unless aborted, workers leave, nothing outlives the pool |
| `TaskCompletion` (same file) | an atomic flag | wait, is_completed | reuse; backoff; sums near `INT64_MAX`; a timeout that races with completion | completed means run; timeouts are exact and end the wait |
| `ic_co_scheduler`, `ic_co_job` (`ic_co_job.h`) | jobs with state and credits, runnable list, total credits, is_done | make, add_job, tick, is_done | jobs added between and during ticks; weights beyond the remaining steps; overflow of the score; re-entrance | each step once and in order; credits add up; equal jobs interleave; ticking terminates |
| value helpers (`ic_num_cast.h`, `ic_bounded_loop.h`, `ic_memory.h`, ...) | none | macros, one-line conversions | boundaries of casts | covered by unit tests |
| `ironhammerc` | counters of tests | the unit tests of the library | none | read as a statement of intent |

How they interact: a gate or broadcast calls its mutex and condition variable; the pool
calls atomics, one mutex, one gate and one task for each worker; a job's completion is
written by the worker and polled by any thread. Threads share these objects only, there
are no callbacks but the job functions themselves. The scheduler is single-threaded; its
steps are callbacks, which may call back into it.

### 1.2 WorkshopC

`main.cpp` reads the command line and the configuration and runs clang's tooling over the
sources, one after the other. For each translation unit
`finder_and_finalizer_consumer.cpp` first runs all AST matchers, during which most rules
report at once and the struct rules only collect; then it finalizes the struct database and
lets the database, init, cleanup, raii-discard and destroy-definition rules do their checks,
in this order. Rules ask the suppression manager and report through `diagnostics.cpp`, which
deduplicates, promotes warnings to errors and counts.

| Component | State it keeps | Operations | What is hard | What makes it correct |
|---|---|---|---|---|
| `CleanupAnalyzer` (`struct_cleanup_rule.cpp`) | open scopes, destroyed flags, stacks of loops and switches, how the last statement is left, reports | one scan per kind of statement, finalize | joins of branches, zero iterations, jumps across scopes, order of destruction across scopes | no leak and no early destroy that an execution meets stays unreported; uses it reports are wrong on every path |
| use-after-move (`rule_arg_ptr_use_after_move.cpp`) | pointers moved on some path, open loops and switches | a walk of each function, loops twice | loops carry a move to their top; breaks, continues, cases | exactly the uses that some path reaches after a move are reported |
| null check (`rule_null_check.cpp`) | pointers known to be non-null, variables that hold a check, states at labels, breaks, cases | a walk with a fixed point per loop | joins, short circuits, stale checks | no execution dereferences an unreported null parameter; no checked parameter is reported |
| tag rules (`rule_arg_ptr_move.cpp`, `rule_function_pointer_tags.cpp`, `rule_arg_ptr_callsite.cpp`, `rule_reference_ptr.cpp`) | none beyond the AST seen so far | checks of declarations, bindings, calls, references | which declaration a use sees; pointers, casts, conditionals between function and call | in quiet code every call site shows what the executed function does |
| struct database (`struct_database_rule.cpp`) | structs with their functions and kinds | collect while matching, finalize, query | queries before finalize; order of declarations | a rule sees the database complete |
| `StructInitRule`, `StructRaiiDiscardRule` (`struct_init_rule.cpp`, `struct_raii_discard_rule.cpp`) | collected records, statements and calls | checks of declarations, assignments, arguments, returns, discarded values | each place is checked alone | each raii value has one owner |
| `StructDestroyDefinitionRule` | collected functions | check of a destroy function's body | returns, gotos and labels between the destroys | the fields are destroyed together |
| suppression manager and diagnostics | ranges of suppressed lines, reported diagnostics, counters | parse comments, report, exit code | repeated and unmatched comments; one header under several spellings and in several sources | each finding is shown once, and hidden exactly when a comment says so |
| configuration (`config_parser.cpp`, `config.hpp`) | every setting of every rule | read, validate, dump | a text read and written by different code | the dump is the configuration |
| driver (`main.cpp`) | options, sources, outputs | arguments, discovery, analysis, outputs, exit code | one source of several fails | the exit code tells the result |
| prefix namespace (`rule_prefix_namespace.cpp`) | the headers whose include guard was checked, over all sources | the prefix and the guard that a path asks for; checks of declarations | both follow the spelling of a path, as do the headers checked | every declaration and guard of a header is looked at under each spelling |
| declaration rules (enums, arrays, spans, vtables, privates, assignment, ...) | none | predicates on one declaration or expression | none a model would show | the regression cases |
| scripts, AlloyC prototype, SteelCLib | none | text processing | none | not applicable |

Everything in WorkshopC is sequential: hard here means the paths and the order of
declarations of the *analysed* program, of which a rule sees each statement once.

## 2 Modules and how they correspond to the code

Names of states and operations are those of the source where TLA+ allows it. A comment that
begins with `Mutant:` marks a broken version of the operator below it; each property of
each run is violated by one of them, which shows that the property says something
about the code.

**IronCLib**

| Module | Models | Correspondence |
|---|---|---|
| `CountingGate` | what `header_library.md` promises of a gate | a counting semaphore whose counter is a `uint32_t`: calls, permits, life. Abstract specification |
| `IcGate` | `ic_gate` | one action per lock, check, sleep, wakeup, relock, change of the counter, notification and unlock of `ic_gate_wait` and `ic_gate_signal_one`, so that other threads may run between any two of them. `GateInit`, `GateInitFails`, `GateDestroy`: only an idle gate is destroyed (anything else is undefined in every backend), and it may be initialised again |
| `StickyEvent` | what `header_library.md` promises of a broadcast | an event that is set or not, and calls that take effect at one instant each: a wait passes when the event is set. Abstract specification |
| `IcBroadcast` | `ic_broadcast` | as `IcGate`, with `ic_broadcast_signal_all` and `ic_broadcast_reset` |
| `IcTask` | `ic_task`, `ic_mutex` | `TaskInit` with its failure; `Trampoline*`: the new thread, which stores its result before its running flag; `JoinLoads`, `JoinStores`, `JoinReturns`: the load and the store of the joined flag and the operating system's join, each a step; `GetResult*`. The callers put the lock or the trylock of a mutex around their joins, as callers that do not know of each other must. The k-th task returns k |
| `JobQueue` | what `parallel_work.h` promises of the jobs | a bounded queue, the jobs that execute, those that returned, the completions, and the phase (running, drain, abort, gone). Abstract specification |
| `TaskPool` | `task_pool_init`, `task_pool_submit`, `task_pool_close`, `task_pool_destroy`, `PRIVATE_task_pool_worker_main` | `Create*`, `Undo*`: init and its failure path. `Submit*`, `Close*`. `JoinWorker`, `JoinFails`: a destroy and a failed init join the workers in order, and each join may fail; `DestroyFails`, `DestroyPool`: what a destroy does then. `Worker*`: one turn of the worker's loop. A step is one access to a shared atomic, one gate operation or one section under the mutex, and `WorkerLock` splits the worker's section where it loads the state that closers store without the mutex |
| `TaskCompletionWait` | `task_completion_wait` | `CallWait` with the checks of its arguments, `Spin`, `Check`, `Sleep` with the sum that saturates and the backoff; `Complete` is the worker's store |
| `CoScheduler` | `ic_co_scheduler` | `AddJob`, `TickIdle`, `TickCalls` (refill, selection, call of the step) and `StepReturns` (state, credits, total). Between the last two a step may add jobs or, if `MaxDepth` is above 1, call tick |

**WorkshopC**

| Module | Models | Correspondence |
|---|---|---|
| `CleanupAnalyzer` | `struct_cleanup_rule.cpp` | the analyzer as a function of a function's body: `ScanStmt` and its parts for each kind of statement, `Analyze` for the whole with its final reports |
| `CleanupExecution` | the C function under analysis (external: the language, not the repository) | a machine that executes the function with every choice of branch, case and number of iterations, and records what is lost, destroyed early and used properly. Its properties compare both |
| `PointerProgram` | the C functions that the pointer analyses read (external) | syntax trees, and the set of states with which an execution can reach each point: who was moved, who may be null, which variable holds which check |
| `UseAfterMove` | `rule_arg_ptr_use_after_move.cpp` | the walker: `WalkExpr`, `WalkIf`, `WalkLoop` (two passes), `WalkSwitch`, `WalkBreak`, `WalkContinue` |
| `NullCheck` | `rule_null_check.cpp` | `FlowAnalyzer`: `Condition` (what is known where a condition is true and where it is false), `Choice`, `Declare` (variables that hold a check), `LoopFrom` (up to 16 rounds), `Switch`, `Label`, `Goto` |
| `PointerRules` | both rules on the functions of a unit | `RunUseAfterMove`, `RunNullCheck`: the reports beside what the executions do |
| `ReferencePointers` | arguments of calls, in `rule_reference_pointer.cpp` | an argument is a base and the operators applied to it, the innermost first; the rule's functions speak of its n-th subexpression. `IsValidArgument`, and when an argument is null (external) |
| `TagRules` | `rule_arg_ptr_move.cpp`, `rule_function_pointer_tags.cpp`, `rule_arg_ptr_move_callsite.cpp`, `rule_reference_pointer.cpp` | what is remembered of a declaration is under its function's name and the type of the parameter as it is spelled (`MakeKey`). A step for each node that the finder visits: `VisitFunction`, `BindPointer`, `InitializeRecord`, `VisitCall`, `VisitAssignment`. An expression for a function is the sequence of its conditionals' branches, each with its casts. Two ghosts say what the program does: the functions that each pointer may hold, and the calls executed |
| `ConfigFile` | `config_parser.cpp`, `config.hpp` | the settings of every rule, `ValidateConfig`, and `WriteConfig`: the dump. A line has a form, an indentation, a key and words |
| `ConfigReader` | `config_parser.cpp` | `LoadFromStream`: how lines become settings. `Reading` is the loop: what is known after each line, by `ReadNext` |
| `Suppressions` | `suppression_manager.cpp` | `ParseFile` (the ranges), `IsSuppressed`, `MissingReasons`, `FindUnbalanced`: scans of a file line by line; and `Silenced`, what the comments mean |
| `PrefixNamespace` | `rule_prefix_namespace.cpp` | the prefix (`BuildPrefix`) and the include guard (`BelowTop`) that a path asks for, name by name as it is spelled, and when a name or a guard misses it |
| `Driver` | `main.cpp`, `diagnostics.cpp`, the suppression rules, `rule_prefix_namespace.cpp` | `Arguments`, `LoadConfig`, `DumpConfig`, `Validate`, `LocateDatabase`, `CollectInput` (once per input), `CollectSources`, `OpenOutputs`, `AnalyzeSource` (once per source: what the rules find in it, `RuleFindings` and `GuardFindings`, and the headers checked), `ReportFinding` (once per finding: `Report` with its `Key`), `WriteOutputs` |
| `StructDatabase` | `struct_database_rule.cpp` | `RegisterStruct`, `RegisterFunction`, `Finalize`, `DatabaseReports` |
| `StructInit` | `struct_init_rule.cpp`, `struct_raii_discard_rule.cpp` | one operator per check, `FindEnclosingFunction` with its bound of 16 parents, `ClassifyUse` and `CheckDiscard`; and which variables and calls the cleanup analyzer tracks |
| `DestroyDefinition` | `struct_destroy_definition_rule.cpp` | `CollectBlock`, `Interrupted`, `CheckDestroyDefinition`; and the function as a list of instructions to be executed |
| `StructFinder` | `finder_and_finalizer_consumer.cpp` | `MatchDeclaration` (the next declaration of one of the headers), `MatchFunctions` (when what they use is declared), `FinalizeDatabase`, and one `Report*` action per rule, in the code's order. What the rules look for in functions and what they report are parameters |
| `StructRules` | the consumer with the rules as configured | gives `StructFinder` its rules; then the executions of a user function (`Step`, `Leave`: where every value is) and of a destroy function (`StepDestroy`, `LeaveDestroy`) |

**Proofs** are in `IcGateProofs`, `IcBroadcastProofs`, `TaskProofs` (of `IcTask` and
`TaskCompletionWait`), `TaskPoolProofs`, `CoSchedulerProofs`, `StructFinderProofs`, `TagRulesProofs` and
`DriverProofs` (section 5). `MC*` modules hold instances for TLC.

Composition: the pool holds a gate, and `TaskPool` models it by a permit counter and not by
an instance of `IcGate`. Theorem `GateIsSemaphore` justifies that: every behaviour of the
gate is one of a counting semaphore. (The pool never has 2^32 permits, so that wraparound
plays no part there.) In turn theorem `PoolIsJobQueue` shows that every behaviour of the pool
is one of `JobQueue`, and `BroadcastIsEvent` that every behaviour of a broadcast is one of `StickyEvent`.
`StructRules` composes the database and the init, discard, destroy-definition
and cleanup rules in the order of the consumer, which is `StructFinder`, and runs the cleanup analyzer of
`CleanupAnalyzer` on its functions. Each of its steps is one of `StructFinder` or leaves that module's
variables alone, so that its `Spec` implies `FinderSpec`. `PointerRules` puts two rules beside one machine;
`Driver` uses the configuration of `ConfigFile`, its reader in `ConfigReader`, the paths of `PrefixNamespace` and the scans of `Suppressions`.

The modules of WorkshopC walk trees with recursive operators and stay with TLC, but for
`StructDatabase`, `StructFinder`, `Driver` and those that it uses. These and the modules of IronCLib are free of them and are
proved about.

## 3 Runs: what they check and what they show

Twelve runs, and all must pass. The figures are distinct states.

**ic_gate** (25,462). Four threads wait and signal in any order; spurious wakeups, failing
waits, failing init, destroy and a second life. Four threads are the smallest number with
two sleepers, a thread that overtakes them, and a signaller. `PermitModulus` = 3 stands for
2^32, and `MaxSignals` = 4 signals in one life make the counter wrap around.
*PermitAccounting* (signals = passed waits + stored permits + whole wraparounds), *NoLostWakeup* (while somebody sleeps,
every permit has a thread about to take it or a signal about to wake one), *PermitsGetUsed*
(liveness of the same), *ImplementsCountingGate* (refinement).

**ic_broadcast** (16,662). Three threads, two resets: enough for a waiter that
sleeps, one woken by an earlier signal, and a thread that signals and resets between.
*NoSleeperWhileSignaled*, *ImplementsEvent* (refinement: each wait passes at an instant at which the
event is set, so that neither a spurious wakeup nor a signal that was reset lets it pass), both
also theorems, and *StickySignalReleases* (liveness: a wait does not last beside a signal that stays, unless the others keep calling for ever and take the mutex first each time).

**ic_task** (49,869). Two callers lock or try a mutex around their joins and ask for results at
any moment, while two tasks use the structure one after the other and the operating system
fails once, at the mutex's init, a task's or a join: enough for two joins that meet between the load and the
store of the joined flag, for a question before, during and after the join, and for the
result of the first task to be mistaken for the second's. *JoinedAtMostOnce*,
*ResultAfterJoin*, *JoinersReturn* (liveness: a caller comes out of its join, unless the other takes the mutex first for ever). Deadlock is checked.

**pool_races** (2,683,127; symmetric in the jobs). Two workers, two slots, three jobs, one
owner that creates the pool (each worker may fail to start), closes it in either mode, closes
it again or destroys it, two calls in all, each of which may time out at any poll; each join of a
worker may fail; submits overlap all of that but destroy. Three jobs fill both slots and make head and tail wrap
around; two workers compete for a permit and leave one after the other.
*QueueIsFifo*, *NoIdleWakeup* (permits match jobs while the pool runs),
*DrainFinishesOwed*, *CompletionIsExact* (from any old value of the completion),
*NoWorkerOutlivesPool* (when gate and mutex are destroyed, only workers whose own join failed may be left, and
a successful destroy has joined the last one), *NobodyIsStranded* (once the wakeups of a close are sent, each worker at
the gate has a permit: the safety behind *WorkersLeave*). Each of the six is also a theorem.

**pool_orderly** (326,647). The pool as its tests use it: no submit overlaps a close, two
jobs, closes with and without a timeout, and fairness. *DrainLeavesNoJob* (also a theorem),
*WorkersLeave*, *ClosesReturn* (every close of either mode, a destroy and a failed init come to their end): what the counting of permits on the way out is for; and
*ImplementsJobQueue* (refinement, also a theorem, and that for racing submits and any closers,
too): jobs begin in the order of their acceptance, `WorkerCount` at a time, each once, and after an
abort one at most, which a worker had loaded another state for.

**co_scheduler** (371,448). Up to three jobs of one to three steps with weights 1 to 3 and
priorities 0 and 2, added before, between and during ticks. A priority of 2 with three credits
exceeds `IntMax` = 5, so that the score overflows; any candidate may then be chosen. Three jobs
are needed for a tie beside a third job; weights above, at and below the number of steps occur.
*StepsOnceInOrder*, *CreditsAddUp* (the total is the sum of the jobs' credits, none above what the
job has left), *DoneMeansFinished* and *EqualJobsInterleave*, all four also theorems, and
*RunsToCompletion*.

**completion_wait** (146,334). The constants of the code (128 spins, doubling every 10
sleeps up to 64 ms) with `INT64_MAX` replaced by 250, so that saturation happens; periods
and timeouts on both sides of every comparison, negative ones and zero included. The job
completes at any moment or never, and a wait that timed out may be repeated.
*TimeoutIsExact* (also a theorem), *TimeoutEndsWait*. The counter
of sleeps is kept modulo 10, which is all the code asks of it.

**cleanup** (333,035). Every well-formed function of at most four statements over a resource
`a` (a parameter or the first local) and a resource `b`: declarations, uses, destroys, blocks,
if with and without else, for (with and without a variable of its own), while, do, switch,
break, continue and return, 24,650 functions, each executed in every way. *LeaksAreReported*
and *EarlyDestroysAreReported* say that the analyzer misses nothing that an execution meets,
*UseReportsAreTrue* that the uses it reports are wrong on every path. All three assume that
the function is *Covered*: a loop's body may reach its end, or always leaves by continue, or
by break (in a loop without a variable of its own), or by return in a do; a switch has no
jump between its cases but for a last break, and destroys nothing that is declared around it;
the body of a for does not destroy the for's own variable. 18,174 of the functions are covered, so that the
premise is far from empty; what is outside it is in section 6. Four statements allow
a loop or a branch inside another with a destroy and a jump, and each property has a mutant of
the analyzer that only such functions expose.

**pointer_rules** (57,718). The two flow analyses on one pointer parameter: every body of up to
three statements and families of four with branches, loops, switches and jumps; larger
conditions (not, and, or, conditional expressions, assignments and calls that do not return);
labels that gotos jump forward to; and variables that hold a check. Four statements allow a
loop or switch around a branch with a jump, before or after a use. Several pointers are
followed independently of each other, so that one is enough.
*MoveReportsAreExact*: the reports are the uses that some path reaches after a move.
Excluded: functions with a goto, with a call that does not return or a conditional
expression (both are walked as straight code), and with and/or beside an assignment, whose
right side may not be evaluated. *NullReportsAreRight*: every null dereference of an
execution is reported, and without gotos only what some path reaches unchecked. Excluded:
an assignment beside a variable that holds a check, and gotos backwards.

**tag_rules** (546,586). Two functions, a caller and two function pointers, in three families:
declarations of every kind against calls; function pointers, a record's fields, casts and
conditionals against functions of differing tags; and arguments of every shape against
references. Both properties are also theorems. *QuietCodeKeepsItsTags* (soundness): when nothing is reported, the tag shown at
each call site is what the executed function does, and no reference is null. It is about units
as `rules.md` has them (*PlainDeclarations*): at most one declaration before the definition, no tags on
pointers to const; and whose declarations spell the type of a parameter alike (*SpelledAlike*), as the rule compares no others. The run
has units that do not. A call through a cast (*CalleesUncast*) and a conditional below a cast that is given to
a pointer (*NoCastConditional*) are excluded, since no rule compares them; the run has units with the latter, so that the
premise is seen to matter. *CodeThatAgreesIsQuiet* (no false reports) is about all units whose
declarations, pointers and calls agree, whose callees are not cast and whose arguments follow no pointers but the
parameter and local ones (*PlainArgument*; section 6).

**driver** (204,617). Whole runs over small projects: every header of up to three lines, each of
which may turn the rules off, on, give a reason and break rules, included by two sources
under two spellings and in parts; a third-party file, a system header; sources that fail to
compile; every way to be refused; every command line option; and the dump of each setting
given alone and of all at once. In one family the header's two spellings (`inc/io/h.h` and
`src/../inc/io/h.h`) ask for different prefixes and include guards, its names start with either or none,
and its guard is either, another one, suppressed or missing. *EveryFindingOnce*: each unsuppressed violation and
each missing guard is reported, and nothing twice in the same words; a line and a rule once, or once for each prefix that the
spellings ask for, a guard once for each spelling. *ExitCodeTellsTheResult* and
*DumpedConfigIsTheConfig*. All three are also theorems; the last has two premises, and the run has configurations
that fail each of them. Three lines are enough for off, on, off and for a line after a
second off; two spellings for a finding that is met again in other words.

**struct_rules** (1,979,192). A translation unit with a raii struct and its helpers. *EveryValueHasOneOwner*:
every user function of up to three statements (a family has four) out of declarations,
assignments, arguments, wrapped, discarded, destroyed and returned values, over a parameter,
a local variable, an array of two and a pointer, when no rule reports it, runs with each
value in exactly one place and none left at the end. Excluded: assignments from expressions
that the rule does not look at, statements more than 16 parents deep (section 6).
*VerdictIgnoresOrder* (also a theorem): the reports do not depend on the order in which declarations,
definitions and uses are met; the declarations of up to four headers come one by one, in every
interleaving in which a program compiles, with missing, doubled, unfit and ignored creators. *FieldsAreDestroyedTogether*: every destroy function of up to four
statements over two fields, with ifs, loops, a label and gotos, that is not reported destroys
both fields or none, once unless a goto leads back, and in reverse order on request.

Deadlock is not checked in eleven runs, since each of these systems may come to rest: all threads
may wait for a signal nobody sends, the pool is destroyed, the scheduler is done, the function
has returned, the program has exited. The liveness properties say what may not be stuck. (`completion_wait` ends when
the wait has returned NoError.)

## 4 Fairness

* `IcGate`: a thread inside its critical section or about to sleep or notify goes on
  (`WF` of each thread's `Advance`), and a mutex that stays free is taken by some thread. No fairness among the
  threads that compete for it is needed: whoever gets it takes the permit.
* `IcBroadcast`: the same. As no backend promises a fair mutex, threads that signal and reset for ever may keep one
  waiter from it for ever. *StickySignalReleases* says so: its alternative is that the others
  call for ever (*OthersCallForEver*). Without it TLC finds the starved waiter.
* `IcTask`: the task's thread runs, a caller inside a join goes on, and a mutex that stays free is taken by one of the
  callers that wait for it. The other caller may lock it for ever (*OthersLockForEver*), which *JoinersReturn*
  allows for; without that TLC refutes it.
* `TaskPool`: each worker, started submit, started close, and the owner's joins go on when they
  can. No new call, no failure, no timeout is assumed to happen.
* `CoScheduler`: the program calls tick while `is_done` is 0, as the example in
  `header_library.md` does, and every step returns.
* `TaskCompletionWait`: the waiting thread runs. Nothing says that the job completes.
* `Driver`: a sequential program goes on. The other WorkshopC modules have safety
  properties only and state no fairness.

## 5 Proofs

All theorems hold for every value of the constants that satisfies the named assumptions of
the module (`FreeAssumption`, `ThreadAssumption`, `ModulusAssumption`, `SignalsAssumption`,
`BroadcastAssumption`, `TaskAssumption`, `PoolAssumption`, `WaitAssumption`,
`SchedulerAssumption`, `UnitAssumption`, `UnitsAssumption`, `InvocationAssumption`); TLC evaluates these in the runs.

| Module | Theorem | Statement |
|---|---|---|
| `IcGateProofs` | `TypeCorrect`, `MutualExclusion`, `EveryPermitAccounted`, `WakeupsNeverLost` | `Spec => []TypeOK`, `[]Exclusion`, `[]PermitAccounting`, `[]NoLostWakeup` |
| | `GateIsSemaphore` | `Spec => ImplementsCountingGate` |
| `IcBroadcastProofs` | `TypeCorrect`, `MutualExclusion`, `NobodySleepsBesideTheFlag`, `PassesAreJustified` | `Spec => []TypeOK`, `[]Exclusion`, `[]NoSleeperWhileSignaled`, `[]PassNeedsSignal` |
| | `BroadcastIsEvent` | `Spec => ImplementsEvent` |
| `TaskProofs` | `TaskTypeCorrect`, `ThreadsJoinOnce`, `ResultsFollowJoins` | `Spec => []TypeOK`, `[]JoinedAtMostOnce`, `[]ResultAfterJoin` |
| | `WaitTypeCorrect`, `TimeoutsAreExact` | `WaitSpec => []WaitTypeOK`, `[]TimeoutIsExact` |
| `TaskPoolProofs` | `TypeCorrect`, `TheQueueIsFifo` | `Spec => []TypeOK`, `[]QueueIsFifo` |
| | `NobodyOutlivesThePool`, `CompletionsAreExact`, `DrainsFinishWhatTheyOwe` | `Spec => []NoWorkerOutlivesPool`, `[]CompletionIsExact`, `[]DrainFinishesOwed` |
| | `PoolIsJobQueue` | `Spec => ImplementsJobQueue` |
| | `NobodyWakesInVain`, `NobodyIsLeftAtTheGate` | `Spec => []NoIdleWakeup`, `[]NobodyIsStranded` |
| | `DrainsLeaveNoJob` | `Orderly /\ Spec => []DrainLeavesNoJob` |
| `CoSchedulerProofs` | `TypeCorrect`, `CallsStayWithinJobs` | `Spec => []TypeOK`, `[]CreditsWithinSteps` |
| | `EachStepOnce`, `TotalIsTheSum` | `OneAtATime /\ Spec => []StepsOnceInOrder`, `[]CreditsAddUp` |
| | `DoneIsFinished`, `EqualJobsTakeTurns` | `OneAtATime /\ Spec => []DoneMeansFinished`, `[]EqualJobsInterleave` |
| `StructFinderProofs` | `VerdictIsOrderFree` | `FinderSpec => []VerdictIgnoresOrder` |
| `TagRulesProofs` | `QuietCode`, `AgreeingCode` | `Spec => []QuietCodeKeepsItsTags`, `[]CodeThatAgreesIsQuiet` |
| `DriverProofs` | `SuppressedIsSilenced` | `IsSuppressed(lines, i) <=> Silenced(lines, i)` for every line of every file |
| | `ExitCodeIsTrue`, `FindingsAreReportedOnce` | `Spec => []ExitCodeTellsTheResult`, `[]EveryFindingOnce` |
| | `DumpIsReadBack` | `Spec => []DumpedConfigIsTheConfig` |

**The gate.** `TypeOK` is inductive by itself, and `Exclusion` relative to it.
`PermitAccounting` needs `TypeOK` and lemma `WrapAround`: adding one modulo n either adds one or, at
n - 1, returns to zero and costs one wraparound. `NoLostWakeup` is inductive relative to the
other two: a thread falls asleep only while no permit is stored, which makes the inequality
hold whatever the counts are; a signal that adds a permit becomes a notifier, one that notifies turns a sleeper into a seeker, and a
seeker that passes takes a permit with it. The counting is in lemma `CountedThreads` (a set of
threads loses or gains one member) and `KeepsNoLostWakeup` (steps that only add seekers or
notifiers). Refinement maps each program counter to the phase of its call (`CallOf`). It needs
one more invariant, `NoCallOutlivesGate`: a thread in a call implies an initialised gate, as the
abstract actions demand.

**The broadcast.** `NoSleeperWhileSignaled` is inductive relative to `Exclusion`: to go to sleep
takes the mutex and a flag that is down. `PassNeedsSignal` needs `FlagIsSeen`: while the flag is
up, every waiter has seen it up. Refinement maps each program counter to the call and whether it
took effect (`CallOf`): a wait takes effect where its loop finds the flag up or its condition
variable fails, a signal where it stores the flag. `CallMoves` turns a step of a program counter
into one of the call, and `NoCallOutlivesBroadcast` gives the abstract actions their guard.

**The task.** `JoinInv` says that the mutex excludes the callers and that the flag guards the
join: nobody was joined while it is down. For the results, `JoinsEnd` says that a joined task is
over or somebody is in the operating system's join, and `ResultStays` that the result is the
current task's once it is stored.

**The pool.** `PoolInv` strengthens the types with what ties the parts together: workers are
created in order; a worker that inspects the queue holds the mutex; a closer's count of
workers yet to be woken is that of the loop it is in (`LeftCounts`); `active_jobs` is the number
of busy workers (`BusyCounted`, which bounds it); a worker holds a job exactly while it works on
it; `count` is the number of accepted jobs less those taken; the ring holds exactly these
(`QueueInRing`, of which `TheQueueIsFifo` is the consequence); and the jobs that workers hold
were taken. A join changes nothing but what is known of the worker (`JoinsTouchNothing`), so that most invariants need
no more of it. On `PoolInv` rest `Gone` (who was joined has left; a pool whose gate and mutex are destroyed has joined all its workers,
and none but those whose join failed holds the mutex or goes on); `JobInv` (a job
is accepted once, has one worker, is run once, and its completion is reset before it can be
taken); `DrainInv` (what was taken is finished or with a worker, and what a drain still owes
was taken when it has seen the queue empty); and `WakeInv`: while the pool runs, permits plus workers on
their way to the queue plus submits about to signal are exactly the jobs in the queue. Once it does
not run any more, that equation is replaced by an inequality (`StrandInv`): the permits, with
those one of the closers has still to send, and the workers that need none are
at least as many as the workers that have not left. Who needs none depends on the mode: in a draining
pool every worker between the gate and its own signal, in an aborting one those that are about to
leave or to signal. A store of the state makes it true again, whoever stores, since
the loop behind it sends a permit for every worker; therefore it holds for any number of closers that override
each other, whether or not an earlier one timed out. It needs `NoIdleWakeup`: a worker that loaded
"running" and found no job would go back to the gate with its permit used. For
`DrainsLeaveNoJob` the assumption `Orderly` (no submit overlaps a close, only the owner closes)
is needed, and `Drained` says that a worker of a draining pool leaves only when the queue is empty.
Without the assumption TLC refutes the property. The first part of `TaskPoolProofs` states what
a step does to the record of a worker or a closer, so that the other proofs speak of fields only.

The pool implements `JobQueue` by a mapping that forgets the mutex, the ring, the gate and the
program counters: what waits is the part of `accepted` behind `taken`, what executes are the jobs of
the workers that run one. `PoolInv`, `JobInv` and `Gone` give the guards of the abstract
actions: a job that is begun is the head of the queue and no busy worker's, one that is
completed has returned and reads 0, one that is accepted is new to the queue and there is room for
it. The mapping of an abort needs `late`, which says that a worker inspects the queue by a state that it loaded
before: as that worker holds the mutex (`Held`), there is only one, and `Begin` after an abort
happens once (`LateWorkers`). `Quiet` says that no job is being submitted while the pool is
created or destroyed, so that a pool that is gone accepts nothing. Where a join failed, the workers left may go on, and the
mapping keeps the phase that the pool's state stands for (`Phase`).

**The completion wait.** `InCall` keeps the arguments valid, `SumSaturates` is the one fact about the
saturating sum, and `ElapsedIsSlept` with `OnTime` tie the sum to the time slept.

**The scheduler.** `CreditsWithinSteps`: no job has more credits than steps left. It is
inductive at any depth of nested ticks, and makes every call one of a step that exists. `InOrder` says
that the steps called are the first ones of the job, in order; it holds while `OneAtATime`
(no step calls tick), as do the other three. For the total the model counts the sum
credit by credit (`SumOf` is the cardinality of a set of pairs), since a recursive sum would
take an induction over data: lemma `SumCounts` says that it is finite, `SumSpends` that
spending a credit takes exactly one from it, `SumLocal` that it depends on the jobs of the cycle only.
`Balanced` adds to `CreditsAddUp` that the step in progress has a credit left to pay with.
A tick that finds no candidate has just refilled, and no job got a credit; therefore
`DoneMeansFinished`. `Fair` explains the interleaving: a job that is not in the cycle and not finished
has completed whole cycles, so that its state is a multiple of its weight; one in the cycle
entered it at such a multiple. Two jobs alike that are to stop at the same step therefore entered at the same
step (`MultiplesApart`), and have the same score whenever they are level. The
one that is ahead has fewer credits and a lower score, hence is not selected (`BestIsNotAhead`).

**The struct rules.** `VisitAdds`: visiting a declaration makes the database of a set of declarations
that of the set with it (`DatabaseOf`, which knows no order). So the invariant can say that while the finder
runs, the database is that of the set of declarations visited so far and the records collected are
theirs (`Gathered`); that from then on it is that of all declarations, since `FinalizeDatabase` waits for
the last one; and that what was reported is what the rules up to here say of it (`ReportedSoFar`). Nothing is assumed of the rules
(`RuleReports`, `FunctionUses`) but that they see the unit, the database and what is collected.

**The tag rules.** A unit is any that `UnitsAssumption` admits: any functions and function pointers, each
function declared any number of times and defined once, with the tags that a declaration may carry; and any expressions and
arguments of any length. The first part of `TagRulesProofs` is about arguments alone. `ValuesStep` shows that what is certain of an
argument is defined from the inside out, and `CastsKeepTheValue` that the operators which `stripWrappers` drops do not change it.
`ValidIsNotNull`: what the reference rule accepts is never null, since `IsObject` implies that an object exists
(`ObjectsExist`). `NotNullIsValid`: of a plain argument it accepts everything that is certainly not null (`ExistingAreObjects`). The inductions over
the operators are by `UpTo`, as in the driver. The second part is about declarations: where they agree with the definition, each of the
four ways in which the rules read a tag gives what the function does, whichever declaration is in sight (`AgreeingTags`); and a
declaration and a definition of which nothing is reported agree (`QuietDeclarationsAgree`). The third part has the
invariants. `Kept`: every function that a pointer may hold was bound to it, what the movement rule remembers under the key of a function's
declaration is its tag once it was visited (`KeyTypes`; two declarations share a key where they are *SpelledAlike*), and a reassigned reference is reported. `Told`: the declarations visited so far that differ
are reported. `QuietSoFar`: while nothing is reported, and if the declarations agree, so do all bindings and calls; the premise *Finished* would not
be inductive, as a binding may be visited before the second declaration of the function that it names. `BindingTells` and
`CalleeTells` say that a binding or a callee is reported if and only if one of the functions that it may reach differs, and `CallTells` the same of
a whole call; therefore they serve both theorems. *CodeThatAgreesIsQuiet* is inductive
relative to `Kept`, because what agrees after a step agreed before it.

**The driver.** Command lines and projects are any that `InvocationAssumption` admits: finitely many
files, each a sequence of lines with a place in the order of the paths, and for each source that may be
asked for, the existing lines that its compilation reads. A configuration file is any sequence of lines, so that
it may be as wrong as one likes. `SuppressedIsSilenced` says that the loop of `parseFile`, which
remembers one flag and one line, finds out what the comments mean: `Known` says what it knows of the lines
so far, and `ReadLineKnown` that the next line, whatever is on it, keeps that true. The induction over the lines
is by a least counterexample (`UpTo`), for which the order of the numbers being well-founded is enough,
and `ScanStep` shows in the same way that the scan is defined for files of any length.
`Phases` says that a run leaves alone what a later phase is for, so that a refused one has reported
nothing. `Collected` says that the sources are those of the inputs searched so far; a folder's files, sorted, are all its
files (`InOrderIsAll`: an injection between finite sets of the same size). For the exit code,
`ResultTold` ties the result to the sources that failed so far and `Counts` the counters to the
records (`ExitInv`). For the findings, `AllReported` says that the keys seen are those of the records, each of one record, and,
with those not yet reported, those of everything found in the sources so far, the missing guards of the
headers checked included; and that each record has the level of its code. `GuardsOnce` says that a guard is found for a header only when its
spelling was not checked before, so that no two records of guards have one spelling; and `Finished`
that a run that succeeded has looked at all its sources (`ReportInv`). That a record has the level of its code is what makes *EveryFindingOnce* true: the level is
part of the key, as are the words, and only because all findings of one code have the same level are two records of one line and code in the same words
from two files (`OnceFollows`). That a suppressed finding is one
that is silenced is `SuppressedIsSilenced` again (`BrokenIsFound`). `ReportFinding` takes the findings of a source in an
order that `CHOOSE` fixes, and TLC sees that one; the proofs use only that each is one of those left.

**The dump.** `IsConfig` says that each setting of each rule has a value of its kind. Whatever lines are read leave a
config (`LinesGiveAConfig`, by `ReadNextKeeps` and `UpTo`), and so do the overrides of the command line; this
and the phases of a run that dumps are the invariant, `DumpInv`. The rest is `ConfigRead`: of a config, what is written is
read as it. What a line means depends on the lines before it, so that the settings cannot be looked at one by one. `ReadBack(lines, S, T)`
says that the lines lead the reader from any state of S to one of T, and `ReadBackBoth` puts two such pieces together.
`Part(c, W)` is the config when the settings W of c were read, all others being the defaults. A setting adds
itself to W (`SettingRead`; a list does so item by item, `ItemsRead`), whatever the last list was; a rule adds its settings whatever rule came before
(`RuleRead`), which takes indentation into account (`NextRule`, `NextSetting`); the folders and the path before `rules:` are read from the initial state (`PreludeRead`); and the 22
rules that are written are all the rules, with all their settings that are still supported (`WrittenAgrees`). So W
is everything in the end (`AllOfIt`). *NoLegacySettings* and *QuotedOnce* are the premises: what is not written must be the default, and
a text must be the same without its quotes (section 6). The theorem is about lines as the model has them: a key, and a value that is a
sequence of words, each word of a list being a function's name.

Only model-checked: all liveness (fairness and ENABLED are out of the prover's reach);
and the cleanup, struct and pointer analyses of WorkshopC, whose operators are
recursive over trees.

## 6 Seen while modelling

Where code and documents disagree, or an analysis is weaker than one may expect, the
properties have a premise, and this is what it excludes. Those marked (T) TLC finds: when
the premise is dropped, with the constant that is given, or as a counterexample of the
sentence of the document, stated as a property.

IronCLib:

* (T) **A pulse releases nobody.** `header_library.md:924`: "a broadcast
  releases all waiters and keeps the signal active for future waiters until reset". A
  waiter that `signal_all` woke looks at the flag again when it holds the mutex; after a
  reset in between it sleeps on (`ic_concurrency_signal.h:412`).
* (T) **A drained pool keeps a job** (*DrainLeavesNoJob* with `RacingSubmits`). `task_pool_submit` reads the state
  before it takes the mutex (`parallel_work.h:544`). A submit that read "running" may put
  its job in the queue when the last worker of a drain has left, and returns NoError.
* (T) **A job starts after an abort has returned.** `close(Abort)` looks at
  the number of active jobs only (`parallel_work.h:488`). A worker that loaded "running" and
  has not counted itself active yet runs a job later, and one at most (*ImplementsJobQueue*). `concurrency_signal_test.h:1059` expects the opposite.
* (T) **An abort is overridden.** With two closers, a `close(Abort)` between the check and the store of a
  `close(Drain)` is lost (`parallel_work.h:410`); workers that saw the abort have left by then, and a drain without a
  timeout polls for ever over the jobs that they left in the queue (*ClosesReturn* is about one closer).
* (T) **A drain never returns** (*ClosesReturn* with `RacingSubmits`): over a job that was accepted after the last worker
  of a drain had left, as above, a drain without a timeout polls for ever.
* (T) **A failed join is forgotten.** `task_pool_destroy` overwrites the error of each join with the next one's
  (`parallel_work.h:594-603`): if any but the last fails, gate and mutex are destroyed beside a worker that may still use them, and
  the result is NoError. `task_pool_init` ignores its joins altogether (`:366`). *NoWorkerOutlivesPool* speaks of the other workers.
* (T) **A period of 0 never times out**: the sum of the sleeps of `task_completion_wait` stays 0
  (`parallel_work.h:267`). *TimeoutEndsWait* assumes a positive period.
* (T) **A step runs twice** (*StepsOnceInOrder* with `MaxDepth` = 2). Tick calls the step before it moves the
  job on (`ic_co_job.h:304`); a step that calls tick is selected again.

Analyses of WorkshopC:

* (T) **Loops and switches in the cleanup analysis.**
  `void f(vector_t v) { while (c) { vector_destroy(&v); return; } }`: the loop counts as a
  return (`struct_cleanup_rule.cpp:431`, `:490`), nothing is reported, and v is lost when c
  is false at once; `rules.md:996` promises a report at every scope exit. What one case of a switch
  destroys counts in the next case, and cases after the first break that stands directly in the
  switch are not scanned (`:720`): both false reports and missed leaks. *Covered* excludes both.
* (T) **Use after move behind a jump.** After a return or a goto the rest of the block is not
  walked, labels included (`rule_arg_ptr_use_after_move.cpp:370-377`, `:398`), so that a cleanup section
  which a goto reaches is not checked; compare `rules.md:776`.
* (T) **Stale null checks.** A variable that holds a check of p keeps it when p is assigned
  (`rule_null_check.cpp:146`, `:285-301`, `:404-411`), and a goto backwards does not carry its state to
  the label (`:452-463`); compare `rules.md:699` and `:701`.
* (T) **Tags of further declarations.** A function's later declarations are each compared with its tag, but
  differing tags on several earlier ones are not compared with each other (`rule_arg_ptr_move.cpp:299-315`); compare
  `rules.md:768`. *PlainDeclarations* excludes it.
* (T) **Differently spelled types.** What is remembered of a declaration is looked up by name and by the parameters' types as they are
  spelled (`rule_arg_ptr_move.cpp:38-52`, `:307`): a declaration with `Node *` and a definition with `struct Node *` are never
  compared, and a tag that differs is not reported; compare `rules.md:768`. *SpelledAlike* excludes it.
* (T) **Conditionals below casts.** The function pointer rule looks through a cast or at the branches of a
  conditional, not at a conditional below a cast (`rule_function_pointer_tags.cpp:87-133`, `:202`), where
  `rules.md` says that a cast does not hide a mismatch. *NoCastConditional* excludes it.
* **Casts of a callee.** A call follows the type that its callee is cast to (`function_pointer_tags.hpp:60-64`), and
  nothing compares that type with what is cast. *CalleesUncast* excludes it.
* **References reached in another way.** `(&x)->a` and `(*a).b` with an array `a` are never null, and the reference rule does not
  accept them, since it follows a pointer from a reference only (`rule_reference_pointer.cpp:73-104`): a report of
  code that agrees, which *PlainArgument* excludes.
* (T) **Struct values from unchecked places.** An assignment from `*p`, a literal, a conditional
  or an array's element is not reported (`struct_init_rule.cpp:549-567`, `:907`), although such a
  variable may not be reassigned according to `rules.md`; and the enclosing function is not found more than
  16 parents up (`:170`), so that exemptions and reports that depend on it are lost.
* (T) **Destroying twice.** A goto back over the destroys of a destroy function is not reported
  (`struct_destroy_definition_rule.cpp:372-395`); compare `rules.md:1084`.

Configuration and driver:

* Behind `rules:`, `compile_commands_dir` is taken for a setting of the last rule, and the items of
  `third_party_includes` go to that rule's list if its last setting is one
  (`config_parser.cpp:704-792`), though `docs/configuration.md:59` names no order;
  `level: Off  # comment` is read as Warning; a value that ends in `:` begins a list.
* (T) The dump leaves out settings that are no longer supported (`config_parser.cpp:464-528`, `:947`, `:1046-1253`), so that the dump
  of a refused configuration is accepted; `docs/building.md:182`: "must read back as the same config".
* (T) Text in two pairs of quotes loses one of them when it is read (`config_parser.cpp:290`, `:485-512`, `:769`), is
  written without quotes (`:1046-1089`), and loses the other when the dump is read. *QuotedOnce* excludes it. The names in
  the list of `restricted_malloc` do the same (`:311`, `:575`); in the model they have no quotes of their own.
* (T) **A header met under two spellings.** `docs/usage.md:65`: "A problem in a header that is included by several files is only
  reported once." `prefix_namespace` makes prefix, guard and message from the spelled path, and stops at a name with a dot, which `..` is
  (`rule_prefix_namespace.cpp:97-133`, `:275-296`), and the message is part of the key (`diagnostics.cpp:130`). So the same
  declaration is reported in two wordings, or for one of its spellings only, and the include guard is checked once for each spelling (`:393`).
  *EveryFindingOnce* allows that much.
* An empty item in `third_party_includes` is found in every path by eight rules (`enum`, `private`, `private_alternative`, `function_pointer`,
  `assignment`, `prefix_namespace`, `null_check` and most of `argument_pointer_movement`), which then report nothing
  (`rule_enum.cpp:5`); the others pass over it (`rule_no_goto.cpp:13`).
* Two outputs with the same path overwrite each other, a failing write goes unnoticed, and the
  first outputs are already emptied when a later one cannot be opened (`main.cpp`).

## 7 Abstractions and what is left out

* Guards against null arguments and against objects that were never initialised: callers in
  the models use the library as its documentation demands. A job without a completion
  differs from one with it only in that nobody reads the flag.
* `ic_condition_variable_notify_one` and `ic_mutex_lock` do not fail in the models: the
  backends fail for an uninitialised object or a mutex locked by its own thread only.
  Consequently `gate_wait` and `gate_signal_one` do not fail in `TaskPool`: that a worker
  waits again, and that submit or close return early, after such a failure is left out.
* Invalid modes and negative timeouts of `task_pool_close`, which return at once and change
  nothing, and the lengths of its sleeps: a close with a timeout may time out at any poll,
  one without (`TASK_COMPLETION_WAIT_FOREVER`, which is 0) never does.
* Atomics are sequentially consistent single steps, which is what the backends use.
* In `TaskPool` a submitted job's call is part of the job: each job is submitted once.
* In `CoScheduler` a job is its number of steps. `ic_co_job_run` and `add_step` are loops
  over one array.
* In the cleanup analyzer: conditions have no effects and any branch may be taken; goto and
  labels, spans, range-for (which is a while with a variable) and ternaries are not modelled.
* In the pointer analyses: one pointer, no range-for, no statement expressions, no variables declared
  in the head of an if or a switch.
* In the tag rules every function has one pointer parameter; a tag is a tag, whether a macro
  or an attribute spells it.
* In the struct rules: names and suffixes are matched already, and that a signature fits is an input;
  spans, fields of free structs and lists of a struct's fields are left out.
* In the driver and the configuration: characters, the resolution of paths (a spelling has one real path),
  clang's command line, and the formats of the outputs.
* In `PrefixNamespace`: names that the rule compares alike are one name, and so separators, case and the characters that a guard
  replaces are left out; all names that a file declares start with one prefix; which kinds of declarations are looked at
  (`apply_to_*`, static functions) is part of what a line holds; the first `#ifndef` is within the ten lines that the rule reads. For each
  rule a line breaks it or does not: two violations of one rule in one line are one.
* Not modelled at all, for the reasons in `PROJECT.json`: value helpers, ironhammerc, the
  declaration rules, scripts, AlloyC, SteelCLib.

## 8 Plan

The order was: the gate, on which the pool rests; the broadcast; the pool; completion wait
and scheduler; the task; the cleanup analyzer, which has the most state; the pointer, tag and
struct rules in the same manner, each beside an execution; configuration and driver; and the
proofs, from the bottom of IronCLib up to the struct rules and the driver. What may follow:

1. `CleanupAnalyzer`: goto and labels, range-for, spans, ternaries. `StructInit`: spans, and
   fields of free structs.
2. The assignment and span rules (`rule_assignment.cpp`, `rule_span_struct.cpp`), if a reference
   definition of what they protect can be stated that does not repeat them.
