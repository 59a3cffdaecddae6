------------------------- MODULE CoSchedulerProofs -------------------------
(***************************************************************************)
(* What holds of every scheduler, for every number of jobs, steps and      *)
(* priorities; and what holds besides of one none of whose steps calls     *)
(* tick.                                                                   *)
(***************************************************************************)
EXTENDS CoScheduler, SequenceTheorems, FiniteSetTheorems, TLAPS

\* No job has more credits than steps left.
CreditsWithinSteps == \A i \in Index : credits[i] > 0 => credits[i] <= Remaining(i)

CoInv == TypeOK /\ CreditsWithinSteps

-----------------------------------------------------------------------------
(* Sums of credits                                                         *)

\* A job of S for each credit that it holds.
CreditsOf(c, S) == {ik \in S \X (1..MaxSteps) : ik[2] <= c[ik[1]]}

\* A sum is a natural number, and positive exactly when somebody holds a credit.
LEMMA SumCounts ==
  ASSUME NEW S \in SUBSET Index, NEW c \in [Index -> Int]
  PROVE  /\ IsFiniteSet(CreditsOf(c, S)) /\ SumOf(c, S) = Cardinality(CreditsOf(c, S))
         /\ SumOf(c, S) \in Nat
         /\ SumOf(c, S) > 0 <=> \E i \in S : c[i] > 0
<1>1. MaxJobs \in Nat /\ MaxSteps \in Nat \ {0}
  BY SchedulerAssumption
<1>2. IsFiniteSet(S) /\ IsFiniteSet(1..MaxSteps)
  <2>1. IsFiniteSet(1..MaxJobs) /\ IsFiniteSet(1..MaxSteps)
    BY <1>1, FS_Interval
  <2> QED BY <2>1, FS_Subset DEF Index
<1>3. IsFiniteSet(CreditsOf(c, S))
  <2>1. IsFiniteSet(S \X (1..MaxSteps))
    BY <1>2, FS_Product
  <2>2. CreditsOf(c, S) \in SUBSET (S \X (1..MaxSteps))
    BY DEF CreditsOf
  <2> QED BY <2>1, <2>2, FS_Subset
<1>4. SumOf(c, S) = Cardinality(CreditsOf(c, S))
  BY DEF SumOf, CreditsOf
<1>5. SumOf(c, S) \in Nat
  BY <1>3, <1>4, FS_CardinalityType
<1>6. SumOf(c, S) = 0 <=> CreditsOf(c, S) = {}
  BY <1>3, <1>4, FS_EmptySet
<1>7. CreditsOf(c, S) # {} <=> \E i \in S : c[i] > 0
  <2>1. ASSUME NEW i \in S, c[i] > 0 PROVE <<i, 1>> \in CreditsOf(c, S)
    <3>1. 1 \in 1..MaxSteps /\ c[i] \in Int
      BY <1>1
    <3> QED BY <2>1, <3>1 DEF CreditsOf
  <2>2. ASSUME NEW ik \in CreditsOf(c, S) PROVE \E i \in S : c[i] > 0
    <3>1. ik[1] \in S /\ ik[2] \in 1..MaxSteps /\ ik[2] <= c[ik[1]] /\ c[ik[1]] \in Int
      BY DEF CreditsOf
    <3> QED BY <1>1, <3>1
  <2> QED BY <2>1, <2>2
<1> QED BY <1>3, <1>4, <1>5, <1>6, <1>7

\* A job of S spends one of its credits.
LEMMA SumSpends ==
  ASSUME NEW S \in SUBSET Index, NEW c \in [Index -> Int], NEW j \in S, c[j] \in 1..MaxSteps
  PROVE  SumOf([c EXCEPT ![j] = c[j] - 1], S) = SumOf(c, S) - 1
<1> DEFINE d == [c EXCEPT ![j] = c[j] - 1]
<1>1. d \in [Index -> Int] /\ MaxSteps \in Nat \ {0}
  BY SchedulerAssumption
<1>2. <<j, c[j]>> \in CreditsOf(c, S)
  BY DEF CreditsOf
<1>3. CreditsOf(d, S) = CreditsOf(c, S) \ {<<j, c[j]>>}
  <2> SUFFICES ASSUME NEW i \in S, NEW k \in 1..MaxSteps
               PROVE  k <= d[i] <=> k <= c[i] /\ <<i, k>> # <<j, c[j]>>
    BY DEF CreditsOf
  <2>1. CASE i = j
    BY <1>1, <2>1
  <2>2. CASE i # j
    BY <1>1, <2>2
  <2> QED BY <2>1, <2>2
<1>4. /\ IsFiniteSet(CreditsOf(c, S)) /\ SumOf(c, S) = Cardinality(CreditsOf(c, S))
      /\ SumOf(d, S) = Cardinality(CreditsOf(d, S))
  BY <1>1, SumCounts
<1>5. Cardinality(CreditsOf(c, S) \ {<<j, c[j]>>}) = Cardinality(CreditsOf(c, S)) - 1
  BY <1>2, <1>4, FS_RemoveElement
<1> QED BY <1>3, <1>4, <1>5

\* Only the credits of the jobs of S count.
LEMMA SumLocal ==
  ASSUME NEW S \in SUBSET Index, NEW c \in [Index -> Int], NEW d \in [Index -> Int],
         \A i \in S : c[i] = d[i]
  PROVE  SumOf(c, S) = SumOf(d, S)
BY DEF SumOf

-----------------------------------------------------------------------------
(* Every scheduler                                                         *)

\* The credits after the refill, if there is one, stay within the steps that are left.
LEMMA RefillWithinSteps ==
  ASSUME CoInv
  PROVE  /\ CRunnable \in SUBSET Jobs
         /\ CCredits \in [Index -> Int]
         /\ CTotal \in Int
         /\ \A i \in Index : CCredits[i] > 0 => CCredits[i] <= Remaining(i)
         /\ Jobs \subseteq Index
<1>0. /\ count \in 0..MaxJobs /\ MaxJobs \in Nat /\ MaxSteps \in Nat
      /\ steps \in [Index -> 0..MaxSteps] /\ weight \in [Index -> 0..MaxSteps]
      /\ state \in [Index -> Nat] /\ credits \in [Index -> Int] /\ runnable \in SUBSET Jobs
      /\ total \in Int
  BY SchedulerAssumption DEF CoInv, TypeOK
<1>1. Jobs \subseteq Index
  BY <1>0 DEF Jobs, Index
<1>2. \A i \in Index : Remaining(i) \in Int /\ Grant(i) \in Int /\ Grant(i) <= Remaining(i)
  BY <1>0 DEF Remaining, Grant, Least
<1>3. CRunnable \in SUBSET Jobs
  BY <1>0 DEF CRunnable
<1>4. CASE Refills
  <2>1. CCredits = [i \in Index |-> IF i \in CRunnable THEN Grant(i) ELSE credits[i]]
    BY <1>4 DEF CCredits
  <2>2. CCredits \in [Index -> Int]
    BY <1>0, <1>2, <2>1
  <2>3. ASSUME NEW i \in Index, CCredits[i] > 0 PROVE CCredits[i] <= Remaining(i)
    BY <1>2, <2>1, <2>3 DEF CoInv, CreditsWithinSteps
  <2>4. CTotal \in Int
    <3>1. CTotal = SumOf(CCredits, CRunnable) /\ CRunnable \in SUBSET Index
      BY <1>1, <1>3, <1>4 DEF CTotal
    <3> QED BY <2>2, <3>1, SumCounts
  <2> QED BY <1>1, <1>3, <2>2, <2>3, <2>4
<1>5. CASE ~Refills
  BY <1>0, <1>1, <1>3, <1>5 DEF CCredits, CTotal, CoInv, CreditsWithinSteps
<1> QED BY <1>4, <1>5

\* The step that returns belongs to the job on top of the stack.
LEMMA TopOfStack ==
  ASSUME TypeOK, stack # <<>>
  PROVE  /\ Len(stack) \in Nat \ {0} /\ stack[Len(stack)] \in Jobs
         /\ stack[Len(stack)] \in Index
         /\ SubSeq(stack, 1, Len(stack) - 1) \in Seq(Jobs)
         /\ Len(SubSeq(stack, 1, Len(stack) - 1)) = Len(stack) - 1
<1>1. stack \in Seq(Jobs) /\ count \in 0..MaxJobs /\ MaxJobs \in Nat
  BY SchedulerAssumption DEF TypeOK
<1>2. Len(stack) \in Nat \ {0} /\ stack[Len(stack)] \in Jobs
  BY <1>1
<1>3. /\ SubSeq(stack, 1, Len(stack) - 1) \in Seq(Jobs)
      /\ Len(SubSeq(stack, 1, Len(stack) - 1)) = Len(stack) - 1
  <2>1. Len(stack) - 1 \in Int /\ 1 \in Int /\ \A i \in 1..(Len(stack) - 1) : stack[i] \in Jobs
    BY <1>1, <1>2
  <2>2. /\ SubSeq(stack, 1, Len(stack) - 1) \in Seq(Jobs)
        /\ Len(SubSeq(stack, 1, Len(stack) - 1))
              = IF 1 <= Len(stack) - 1 THEN Len(stack) - 1 - 1 + 1 ELSE 0
    BY <2>1, SubSeqProperties
  <2>3. \A n \in Nat \ {0} : n - 1 = IF 1 <= n - 1 THEN n - 1 - 1 + 1 ELSE 0
    OBVIOUS
  <2> QED BY <1>2, <2>2, <2>3
<1> QED BY <1>1, <1>2, <1>3 DEF Jobs, Index

LEMMA CoStays == CoInv /\ [Next]_vars => CoInv'
<1> SUFFICES ASSUME CoInv, [Next]_vars PROVE CoInv'
  OBVIOUS
<1>0. /\ TypeOK /\ count \in 0..MaxJobs /\ MaxJobs \in Nat /\ MaxSteps \in Nat
      /\ steps \in [Index -> 0..MaxSteps] /\ weight \in [Index -> 0..MaxSteps]
      /\ priority \in [Index -> Nat]
      /\ state \in [Index -> Nat] /\ credits \in [Index -> Int] /\ runnable \in SUBSET Jobs
      /\ total \in Int /\ stack \in Seq(Jobs) /\ ran \in [Index -> Seq(Nat)]
  BY SchedulerAssumption DEF CoInv, TypeOK
<1>1. ASSUME NEW n \in 1..MaxSteps, NEW p \in Priorities, NEW w \in 1..MaxSteps, AddJob(n, p, w)
      PROVE  CoInv'
  <2>1. count + 1 \in Index /\ count' = count + 1 /\ count' \in 0..MaxJobs
    BY <1>0, <1>1 DEF AddJob, Index
  <2>2. Jobs \subseteq Jobs'
    BY <1>0, <2>1 DEF Jobs
  <2>3. stack' \in Seq(Jobs')
    <3>1. stack \in Seq(Jobs')
      BY <1>0, <2>2, SeqMonotonic
    <3> QED BY <1>1, <3>1 DEF AddJob
  <2>4. n \in 0..MaxSteps /\ w \in 0..MaxSteps /\ p \in Nat
    BY <1>0, SchedulerAssumption
  <2>5. /\ steps' \in [Index -> 0..MaxSteps] /\ weight' \in [Index -> 0..MaxSteps]
        /\ priority' \in [Index -> Nat] /\ state' \in [Index -> Nat]
        /\ credits' \in [Index -> Int]
    <3>1. /\ steps' = [steps EXCEPT ![count + 1] = n] /\ weight' = [weight EXCEPT ![count + 1] = w]
          /\ priority' = [priority EXCEPT ![count + 1] = p]
          /\ state' = [state EXCEPT ![count + 1] = 0]
          /\ credits' = [credits EXCEPT ![count + 1] = 0]
      BY <1>1 DEF AddJob
    <3>2. /\ steps' \in [Index -> 0..MaxSteps] /\ weight' \in [Index -> 0..MaxSteps]
          /\ priority' \in [Index -> Nat]
      <4> HIDE DEF Index
      <4> QED BY <1>0, <2>1, <2>4, <3>1
    <3>3. state' \in [Index -> Nat]
      BY <1>0, <2>1, <3>1
    <3>4. credits' \in [Index -> Int]
      BY <1>0, <2>1, <3>1
    <3> QED BY <3>2, <3>3, <3>4
  <2>6. TypeOK'
    BY <1>0, <1>1, <2>1, <2>2, <2>3, <2>5 DEF AddJob, TypeOK
  <2>7. CreditsWithinSteps'
    <3> SUFFICES ASSUME NEW i \in Index, credits'[i] > 0
                 PROVE  credits'[i] <= steps'[i] - state'[i]
      BY DEF CreditsWithinSteps, Remaining
    <3>1. i # count + 1
      BY <1>0, <1>1 DEF AddJob
    <3>2. credits'[i] = credits[i] /\ steps'[i] = steps[i] /\ state'[i] = state[i]
      BY <1>0, <1>1, <3>1 DEF AddJob
    <3> QED BY <3>2 DEF CoInv, CreditsWithinSteps, Remaining
  <2> QED BY <2>6, <2>7 DEF CoInv
<1>2. CASE Tick
  <2>1. /\ credits' = CCredits /\ runnable' = CRunnable /\ total' = CTotal
        /\ UNCHANGED <<count, steps, priority, weight, state>>
    BY <1>2 DEF Tick, TickIdle, TickCalls, jobs
  <2>2. isDone' \in {0, 1} /\ stack' \in Seq(Jobs) /\ ran' \in [Index -> Seq(Nat)]
    <3>1. CASE TickIdle
      BY <1>0, <3>1 DEF TickIdle, TypeOK
    <3>2. ASSUME NEW i \in Jobs, TickCalls(i)
          PROVE  isDone' \in {0, 1} /\ stack' \in Seq(Jobs) /\ ran' \in [Index -> Seq(Nat)]
      <4>1. i \in Index
        BY <1>0 DEF Jobs, Index
      <4>2. Append(ran[i], state[i]) \in Seq(Nat) /\ Append(stack, i) \in Seq(Jobs)
        BY <1>0, <4>1
      <4>3. ran' = [ran EXCEPT ![i] = Append(ran[i], state[i])] /\ stack' = Append(stack, i)
            /\ isDone' = isDone
        BY <3>2 DEF TickCalls
      <4> QED BY <1>0, <4>1, <4>2, <4>3 DEF TypeOK
    <3> QED BY <1>2, <3>1, <3>2 DEF Tick
  <2>3. CCredits \in [Index -> Int] /\ CRunnable \in SUBSET Jobs /\ CTotal \in Int
        /\ \A i \in Index : CCredits[i] > 0 => CCredits[i] <= Remaining(i)
    BY RefillWithinSteps
  <2>4. Jobs' = Jobs
    BY <2>1 DEF Jobs
  <2>5. TypeOK'
    BY <1>0, <2>1, <2>2, <2>3, <2>4 DEF TypeOK
  <2>6. CreditsWithinSteps'
    BY <2>1, <2>3 DEF CreditsWithinSteps, Remaining
  <2> QED BY <2>5, <2>6 DEF CoInv
<1>3. CASE StepReturns
  <2> DEFINE j == stack[Len(stack)]
  <2>1. j \in Index /\ SubSeq(stack, 1, Len(stack) - 1) \in Seq(Jobs)
    BY <1>0, <1>3, TopOfStack DEF StepReturns
  <2>2. /\ state' = [state EXCEPT ![j] = state[j] + 1] /\ total' = total - 1
        /\ credits' = [credits EXCEPT ![j] = credits[j] - 1]
        /\ stack' = SubSeq(stack, 1, Len(stack) - 1)
        /\ UNCHANGED <<count, steps, priority, weight, runnable, isDone, ran>>
    BY <1>3 DEF StepReturns, jobs
  <2> HIDE DEF j
  <2>3. state' \in [Index -> Nat] /\ credits' \in [Index -> Int]
    BY <1>0, <2>1, <2>2
  <2>4. TypeOK'
    BY <1>0, <2>1, <2>2, <2>3 DEF TypeOK, Jobs
  <2>5. CreditsWithinSteps'
    <3> SUFFICES ASSUME NEW i \in Index, credits'[i] > 0
                 PROVE  credits'[i] <= steps[i] - state'[i]
      BY <2>2 DEF CreditsWithinSteps, Remaining
    <3>1. credits[i] > 0 => credits[i] <= steps[i] - state[i]
      BY DEF CoInv, CreditsWithinSteps, Remaining
    <3>2. CASE i = j
      BY <1>0, <2>1, <2>2, <3>1, <3>2
    <3>3. CASE i # j
      BY <1>0, <2>1, <2>2, <3>1, <3>3
    <3> QED BY <3>2, <3>3
  <2> QED BY <2>4, <2>5 DEF CoInv
<1>4. CASE UNCHANGED vars
  BY <1>4 DEF vars, jobs, CoInv, TypeOK, Jobs, CreditsWithinSteps, Remaining
<1> QED BY <1>1, <1>2, <1>3, <1>4 DEF Next

LEMMA CoHolds == Spec => []CoInv
<1>1. Init => CoInv
  BY SchedulerAssumption DEF Init, CoInv, TypeOK, CreditsWithinSteps, Jobs, Index
<1> QED BY <1>1, CoStays, PTL DEF Spec

\* The variables of the scheduler stay in their ranges: no tick selects a job that was not
\* added, and no step returns to a tick that was not called.
THEOREM TypeCorrect == Spec => []TypeOK
<1>1. CoInv => TypeOK
  BY DEF CoInv
<1> QED BY <1>1, CoHolds, PTL

\* A job that holds credits has as many steps left: a tick never calls a step beyond the
\* job's last one, not even when steps call tick.
THEOREM CallsStayWithinJobs == Spec => []CreditsWithinSteps
<1>1. CoInv => CreditsWithinSteps
  BY DEF CoInv
<1> QED BY <1>1, CoHolds, PTL

-----------------------------------------------------------------------------
(* A scheduler none of whose steps calls tick                              *)

OneAtATime == MaxDepth = 1

\* Each job has run the steps before the one it is on, in order, and the one it is on if
\* that is executing.
InOrder ==
    /\ OneAtATime /\ Len(stack) <= 1
    /\ \A i \in Index : Len(ran[i]) = IF stack # <<>> /\ stack[1] = i THEN state[i] + 1 ELSE state[i]
    /\ \A i \in Index : \A k \in 1..Len(ran[i]) : ran[i][k] = k - 1
    /\ \A i \in Index : i > count => ran[i] = <<>>

LEMMA OrderStays == CoInv /\ InOrder /\ [Next]_vars => InOrder'
<1> SUFFICES ASSUME CoInv, InOrder, [Next]_vars PROVE InOrder'
  OBVIOUS
<1>0. /\ TypeOK /\ count \in 0..MaxJobs /\ MaxJobs \in Nat /\ MaxDepth = 1
      /\ state \in [Index -> Nat] /\ stack \in Seq(Jobs) /\ ran \in [Index -> Seq(Nat)]
      /\ Jobs \subseteq Index
  <2>1. /\ TypeOK /\ count \in 0..MaxJobs /\ MaxJobs \in Nat /\ MaxDepth = 1
        /\ state \in [Index -> Nat] /\ stack \in Seq(Jobs) /\ ran \in [Index -> Seq(Nat)]
    BY SchedulerAssumption DEF CoInv, TypeOK, InOrder, OneAtATime
  <2> QED BY <2>1 DEF Jobs, Index
<1>1. ASSUME NEW n \in 1..MaxSteps, NEW p \in Priorities, NEW w \in 1..MaxSteps, AddJob(n, p, w)
      PROVE  InOrder'
  <2>1. /\ count < MaxJobs /\ count' = count + 1 /\ UNCHANGED <<stack, ran>>
        /\ state' = [state EXCEPT ![count + 1] = 0]
    BY <1>1 DEF AddJob
  <2>2. count + 1 \in Index /\ ran[count + 1] = <<>>
    BY <1>0, <2>1 DEF InOrder, Index
  <2>3. stack # <<>> => stack[1] \in Jobs /\ stack[1] # count + 1
    BY <1>0 DEF Jobs
  <2>4. ASSUME NEW i \in Index
        PROVE  Len(ran[i]) = IF stack # <<>> /\ stack[1] = i THEN state'[i] + 1 ELSE state'[i]
    <3>1. CASE i = count + 1
      BY <1>0, <2>1, <2>2, <2>3, <3>1
    <3>2. CASE i # count + 1
      BY <1>0, <2>1, <3>2 DEF InOrder
    <3> QED BY <3>1, <3>2
  <2>5. \A i \in Index : i > count' => ran[i] = <<>>
    BY <1>0, <2>1 DEF InOrder, Index
  <2> QED BY <2>1, <2>4, <2>5 DEF InOrder, OneAtATime
<1>2. CASE TickIdle
  BY <1>2 DEF TickIdle, jobs, InOrder, OneAtATime
<1>3. ASSUME NEW i \in Jobs, TickCalls(i)
      PROVE  InOrder'
  <2>1. /\ Len(stack) < 1 /\ stack' = Append(stack, i) /\ UNCHANGED <<state, count>>
        /\ ran' = [ran EXCEPT ![i] = Append(ran[i], state[i])]
    BY <1>0, <1>3 DEF TickCalls, MayTick, jobs
  <2>2. stack = <<>> /\ Len(stack') = 1 /\ stack'[1] = i /\ stack' # <<>> /\ i \in Index
    BY <1>0, <2>1
  <2>3. Len(ran[i]) = state[i]
    BY <2>2 DEF InOrder
  <2>4. /\ ran'[i] = Append(ran[i], state[i]) /\ \A k \in Index \ {i} : ran'[k] = ran[k]
        /\ Len(ran'[i]) = state[i] + 1
        /\ \A k \in 1..Len(ran'[i]) : ran'[i][k] = k - 1
    <3>1. ran'[i] = Append(ran[i], state[i]) /\ \A k \in Index \ {i} : ran'[k] = ran[k]
      BY <1>0, <2>1, <2>2
    <3>2. \A k \in 1..Len(ran[i]) : ran[i][k] = k - 1
      BY <2>2 DEF InOrder
    <3> QED BY <1>0, <2>2, <2>3, <3>1, <3>2
  <2>5. i <= count /\ count \in Int
    BY <1>0 DEF Jobs
  <2>6. \A k \in Index : Len(ran'[k]) = IF stack' # <<>> /\ stack'[1] = k THEN state'[k] + 1
                                        ELSE state'[k]
    <3> TAKE k \in Index
    <3>1. k # i => Len(ran[k]) = state[k]
      BY <2>2 DEF InOrder
    <3> QED BY <2>1, <2>2, <2>4, <3>1
  <2>7. \A k \in Index : \A m \in 1..Len(ran'[k]) : ran'[k][m] = m - 1
    <3> TAKE k \in Index
    <3>1. \A m \in 1..Len(ran[k]) : ran[k][m] = m - 1
      BY DEF InOrder
    <3> QED BY <2>4, <3>1
  <2>8. \A k \in Index : k > count' => ran'[k] = <<>>
    BY <2>1, <2>4, <2>5 DEF InOrder, Index
  <2> QED BY <1>0, <2>2, <2>6, <2>7, <2>8 DEF InOrder, OneAtATime
<1>4. CASE StepReturns
  <2> DEFINE j == stack[Len(stack)]
  <2>1. /\ Len(stack) \in Nat \ {0} /\ j \in Index
        /\ Len(SubSeq(stack, 1, Len(stack) - 1)) = Len(stack) - 1
    BY <1>0, <1>4, TopOfStack DEF StepReturns
  <2>2. Len(stack) = 1 /\ j = stack[1] /\ stack # <<>>
    BY <1>0, <2>1 DEF InOrder
  <2>3. /\ state' = [state EXCEPT ![j] = state[j] + 1] /\ UNCHANGED <<count, ran>>
        /\ stack' = SubSeq(stack, 1, Len(stack) - 1)
    BY <1>4 DEF StepReturns, jobs
  <2>4. Len(stack') = 0 /\ stack' = <<>>
    BY <1>0, <2>1, <2>2, <2>3
  <2>5. \A i \in Index : Len(ran[i]) = state'[i]
    BY <1>0, <2>1, <2>2, <2>3 DEF InOrder
  <2> QED BY <2>3, <2>4, <2>5 DEF InOrder, OneAtATime
<1>5. CASE UNCHANGED vars
  BY <1>5 DEF vars, jobs, InOrder, OneAtATime
<1> QED BY <1>1, <1>2, <1>3, <1>4, <1>5 DEF Next, Tick

\* Where no step calls tick, each job's steps run once each, in order.
THEOREM EachStepOnce == OneAtATime /\ Spec => []StepsOnceInOrder
<1>1. OneAtATime /\ Init => InOrder
  BY SchedulerAssumption DEF Init, InOrder, Index
<1>2. CoInv /\ InOrder => StepsOnceInOrder
  BY SchedulerAssumption DEF CoInv, TypeOK, InOrder, StepsOnceInOrder, Jobs, Index
<1> QED BY <1>1, <1>2, OrderStays, CoHolds, PTL DEF Spec

-----------------------------------------------------------------------------
(* The credits of a cycle                                                  *)

\* What every job was added with; and the credits, which nobody overdraws: the job whose
\* step executes is one of the cycle's and has yet to pay for the step.
Balanced ==
    /\ OneAtATime /\ Len(stack) <= 1
    /\ \A i \in Jobs : weight[i] >= 1 /\ credits[i] \in 0..Remaining(i) /\ credits[i] <= weight[i]
    /\ total = SumOf(credits, runnable)
    /\ stack # <<>> => stack[1] \in runnable /\ credits[stack[1]] > 0

\* What a tick looks at, after a refill or without one, is balanced too; and a tick that finds
\* no candidate finds every job at its end.
LEMMA RefillBalances ==
  ASSUME CoInv, Balanced, stack = <<>>
  PROVE  /\ \A i \in Jobs : CCredits[i] \in 0..Remaining(i) /\ CCredits[i] <= weight[i]
         /\ CTotal = SumOf(CCredits, CRunnable)
         /\ Candidates = {} => \A i \in Jobs : Remaining(i) <= 0
<1>0. /\ count \in 0..MaxJobs /\ MaxJobs \in Nat /\ MaxSteps \in Nat \ {0}
      /\ steps \in [Index -> 0..MaxSteps] /\ weight \in [Index -> 0..MaxSteps]
      /\ state \in [Index -> Nat] /\ credits \in [Index -> Int] /\ runnable \in SUBSET Jobs
      /\ total \in Int
  BY SchedulerAssumption DEF CoInv, TypeOK
<1>1. CRunnable \in SUBSET Jobs /\ CCredits \in [Index -> Int] /\ Jobs \subseteq Index
  BY RefillWithinSteps
<1>2. \A i \in Jobs : /\ weight[i] \in 1..MaxSteps /\ credits[i] \in 0..Remaining(i)
                      /\ credits[i] <= weight[i] /\ Remaining(i) \in Int
  <2>1. \A i \in Index : weight[i] \in 0..MaxSteps /\ Remaining(i) \in Int
    BY <1>0 DEF Remaining
  <2> QED BY <1>0, <1>1, <2>1 DEF Balanced
<1>3. CASE Refills
  <2>1. /\ CRunnable = {i \in Jobs : Remaining(i) > 0}
        /\ CCredits = [i \in Index |-> IF i \in CRunnable THEN Grant(i) ELSE credits[i]]
        /\ CTotal = SumOf(CCredits, CRunnable)
    BY <1>3 DEF CRunnable, CCredits, CTotal
  <2>2. \A i \in CRunnable : CCredits[i] \in 1..Remaining(i) /\ CCredits[i] <= weight[i]
    BY <1>0, <1>1, <1>2, <2>1 DEF Grant, Least
  <2>3. \A i \in Jobs \ CRunnable : CCredits[i] = credits[i]
    BY <1>1, <2>1
  <2>4. \A i \in Jobs : CCredits[i] \in 0..Remaining(i) /\ CCredits[i] <= weight[i]
    BY <1>2, <2>2, <2>3
  <2>5. Candidates = {} => CRunnable = {}
    BY <1>2, <2>2, <1>1 DEF Candidates
  <2>6. CRunnable = {} => \A i \in Jobs : Remaining(i) <= 0
    <3>1. ASSUME NEW i \in Jobs, Remaining(i) > 0 PROVE i \in CRunnable
      BY <2>1, <3>1
    <3> QED BY <1>2, <3>1
  <2> QED BY <2>1, <2>4, <2>5, <2>6
<1>4. CASE ~Refills
  <2>1. CRunnable = runnable /\ CCredits = credits /\ CTotal = total
    BY <1>4 DEF CRunnable, CCredits, CTotal
  <2>2. SumOf(credits, runnable) > 0
    BY <1>0, <1>4 DEF Refills, Balanced
  <2>3. \E i \in runnable : credits[i] > 0
    BY <1>0, <1>1, <2>2, SumCounts
  <2> QED BY <1>2, <2>1, <2>3 DEF Balanced, Candidates
<1> QED BY <1>3, <1>4

\* AddJob takes the next place.
LEMMA JobsGrow ==
  ASSUME NEW n \in Nat, n < MaxJobs
  PROVE  n + 1 \in Index /\ n + 1 \notin 1..n /\ 1..(n + 1) = (1..n) \cup {n + 1}
BY SchedulerAssumption DEF Index

LEMMA BalanceStays ==
  ASSUME CoInv, CoInv', Balanced, DoneMeansFinished, [Next]_vars
  PROVE  Balanced' /\ DoneMeansFinished'
<1>0. /\ count \in 0..MaxJobs /\ MaxJobs \in Nat /\ MaxSteps \in Nat \ {0} /\ MaxDepth = 1
      /\ steps \in [Index -> 0..MaxSteps] /\ weight \in [Index -> 0..MaxSteps]
      /\ state \in [Index -> Nat] /\ credits \in [Index -> Int] /\ runnable \in SUBSET Jobs
      /\ total \in Int /\ stack \in Seq(Jobs) /\ Jobs \subseteq Index
  <2>1. Jobs \subseteq Index
    BY RefillWithinSteps
  <2> QED BY <2>1, SchedulerAssumption DEF CoInv, TypeOK, Balanced, OneAtATime
<1>1. ASSUME NEW n \in 1..MaxSteps, NEW p \in Priorities, NEW w \in 1..MaxSteps, AddJob(n, p, w)
      PROVE  Balanced' /\ DoneMeansFinished'
  <2>1. /\ count < MaxJobs /\ count' = count + 1 /\ isDone' = 0
        /\ steps' = [steps EXCEPT ![count + 1] = n] /\ weight' = [weight EXCEPT ![count + 1] = w]
        /\ state' = [state EXCEPT ![count + 1] = 0] /\ credits' = [credits EXCEPT ![count + 1] = 0]
        /\ UNCHANGED <<runnable, total, stack>>
    BY <1>1 DEF AddJob
  <2>2. count + 1 \in Index /\ count + 1 \notin Jobs /\ Jobs' = Jobs \cup {count + 1}
    BY <1>0, <2>1, JobsGrow DEF Jobs
  <2>3. ASSUME NEW i \in Jobs'
        PROVE  /\ weight'[i] >= 1 /\ credits'[i] \in 0..(steps'[i] - state'[i])
               /\ credits'[i] <= weight'[i]
    <3>1. CASE i = count + 1
      BY <1>0, <2>1, <2>2, <3>1
    <3>2. CASE i # count + 1
      <4>1. i \in Jobs /\ i \in Index
        BY <1>0, <2>2, <3>2
      <4> QED BY <1>0, <2>1, <3>2, <4>1 DEF Balanced, Remaining
    <3> QED BY <3>1, <3>2
  <2>4. total' = SumOf(credits', runnable')
    <3>1. credits' \in [Index -> Int] /\ \A i \in runnable : credits[i] = credits'[i]
      BY <1>0, <2>1, <2>2
    <3>2. SumOf(credits, runnable) = SumOf(credits', runnable)
      BY <1>0, <3>1, SumLocal
    <3> QED BY <2>1, <3>2 DEF Balanced
  <2>5. stack' # <<>> => stack'[1] \in runnable' /\ credits'[stack'[1]] > 0
    BY <1>0, <2>1, <2>2 DEF Balanced
  <2> QED BY <2>1, <2>3, <2>4, <2>5 DEF Balanced, OneAtATime, Remaining, DoneMeansFinished
<1>2. CASE Tick
  <2>1. /\ credits' = CCredits /\ runnable' = CRunnable /\ total' = CTotal
        /\ UNCHANGED <<count, steps, priority, weight, state>> /\ Len(stack) < 1
    BY <1>0, <1>2 DEF Tick, TickIdle, TickCalls, MayTick, jobs
  <2>2. stack = <<>> /\ Jobs' = Jobs
    BY <1>0, <2>1 DEF Jobs
  <2>3. /\ \A i \in Jobs : CCredits[i] \in 0..Remaining(i) /\ CCredits[i] <= weight[i]
        /\ CTotal = SumOf(CCredits, CRunnable)
        /\ Candidates = {} => \A i \in Jobs : Remaining(i) <= 0
    BY <2>2, RefillBalances
  <2>4. /\ \A i \in Jobs' : weight'[i] >= 1 /\ credits'[i] \in 0..Remaining(i)' /\ credits'[i] <= weight'[i]
        /\ total' = SumOf(credits', runnable')
    BY <2>1, <2>2, <2>3 DEF Balanced, Remaining
  <2>5. CASE TickIdle
    <3>1. Candidates = {} /\ stack' = stack
      BY <2>5 DEF TickIdle
    <3> QED BY <2>1, <2>2, <2>3, <2>4, <3>1 DEF Balanced, OneAtATime, DoneMeansFinished, Remaining
  <2>6. ASSUME NEW i \in Jobs, TickCalls(i)
        PROVE  Balanced' /\ DoneMeansFinished'
    <3>1. i \in Candidates /\ stack' = Append(stack, i) /\ isDone' = isDone
      BY <2>6 DEF TickCalls
    <3>2. stack' = <<i>> /\ Len(stack') = 1 /\ stack'[1] = i
      BY <2>2, <3>1
    <3>3. i \in runnable' /\ credits'[i] > 0
      BY <2>1, <3>1 DEF Candidates
    <3> QED BY <2>1, <2>2, <2>4, <3>1, <3>2, <3>3
            DEF Balanced, OneAtATime, DoneMeansFinished, Remaining
  <2> QED BY <1>2, <2>5, <2>6 DEF Tick
<1>3. CASE StepReturns
  <2> DEFINE j == stack[Len(stack)]
  <2>1. /\ Len(stack) \in Nat \ {0} /\ stack # <<>>
        /\ Len(SubSeq(stack, 1, Len(stack) - 1)) = Len(stack) - 1
    BY <1>3, TopOfStack DEF StepReturns, CoInv
  <2>2. Len(stack) = 1 /\ j = stack[1]
    BY <2>1 DEF Balanced
  <2>3. /\ state' = [state EXCEPT ![j] = state[j] + 1] /\ total' = total - 1
        /\ credits' = [credits EXCEPT ![j] = credits[j] - 1]
        /\ stack' = SubSeq(stack, 1, Len(stack) - 1)
        /\ UNCHANGED <<count, steps, priority, weight, runnable, isDone>>
    BY <1>3 DEF StepReturns, jobs
  <2>4. Len(stack') = 0 /\ stack' = <<>>
    <3>1. stack' \in Seq(Jobs')
      BY DEF CoInv, TypeOK
    <3> QED BY <2>1, <2>2, <2>3, <3>1
  <2>5. j \in runnable /\ j \in Jobs /\ j \in Index /\ credits[j] > 0
    BY <1>0, <2>1, <2>2 DEF Balanced
  <2> HIDE DEF j
  <2>6. ASSUME NEW i \in Jobs
        PROVE  /\ weight[i] >= 1 /\ credits'[i] \in 0..(steps[i] - state'[i])
               /\ credits'[i] <= weight[i] /\ state'[i] >= state[i]
    <3>1. /\ weight[i] >= 1 /\ credits[i] \in 0..(steps[i] - state[i]) /\ credits[i] <= weight[i]
          /\ i \in Index
      BY <1>0 DEF Balanced, Remaining
    <3>2. CASE i = j
      BY <1>0, <2>3, <2>5, <3>1, <3>2
    <3>3. CASE i # j
      BY <1>0, <2>3, <2>5, <3>1, <3>3
    <3> QED BY <3>2, <3>3
  <2>7. total' = SumOf(credits', runnable')
    <3>1. credits[j] \in 1..MaxSteps
      BY <1>0, <2>5 DEF Balanced
    <3>2. SumOf([credits EXCEPT ![j] = credits[j] - 1], runnable) = SumOf(credits, runnable) - 1
      BY <1>0, <2>5, <3>1, SumSpends
    <3> QED BY <2>3, <3>2 DEF Balanced
  <2>8. DoneMeansFinished'
    BY <1>0, <2>3, <2>6 DEF DoneMeansFinished, Remaining, Jobs
  <2> QED BY <2>3, <2>4, <2>6, <2>7, <2>8 DEF Balanced, OneAtATime, Remaining, Jobs
<1>4. CASE UNCHANGED vars
  BY <1>4 DEF vars, jobs, Balanced, OneAtATime, DoneMeansFinished, Jobs, Remaining
<1> QED BY <1>1, <1>2, <1>3, <1>4 DEF Next

LEMMA BalanceHolds == OneAtATime /\ Spec => [](CoInv /\ Balanced /\ DoneMeansFinished)
<1>1. OneAtATime /\ Init => Balanced /\ DoneMeansFinished
  <2> SUFFICES ASSUME OneAtATime, Init PROVE Balanced /\ DoneMeansFinished
    OBVIOUS
  <2>1. Jobs = {} /\ runnable = {} /\ total = 0 /\ stack = <<>> /\ credits \in [Index -> Int]
    BY DEF Init, Jobs
  <2>2. SumOf(credits, runnable) = 0
    <3>1. /\ SumOf(credits, runnable) \in Nat
          /\ SumOf(credits, runnable) > 0 <=> \E i \in runnable : credits[i] > 0
      BY <2>1, SumCounts
    <3> QED BY <2>1, <3>1
  <2> QED BY <2>1, <2>2 DEF Balanced, DoneMeansFinished
<1> QED BY <1>1, BalanceStays, CoHolds, PTL DEF Spec

\* Where no step calls tick, total_credits is at every moment what the jobs of the cycle have
\* left, and no job has more credits than steps: a cycle ends exactly when it is used up.
THEOREM TotalIsTheSum == OneAtATime /\ Spec => []CreditsAddUp
<1>1. Balanced => CreditsAddUp
  BY DEF Balanced, CreditsAddUp
<1> QED BY <1>1, BalanceHolds, PTL

\* Where no step calls tick, a scheduler that reports that it is done has no job with a step
\* left, whatever was added in the middle of a cycle.
THEOREM DoneIsFinished == OneAtATime /\ Spec => []DoneMeansFinished
BY BalanceHolds, PTL

-----------------------------------------------------------------------------
(* Equal jobs                                                              *)

Multiples(w) == {q * w : q \in Nat}

\* The state with which job i can have entered the cycle: it runs weight steps in a cycle, or
\* fewer when it has fewer left.
Entered(i, s) == /\ s \in Multiples(weight[i]) /\ s <= state[i] /\ s < steps[i]
                 /\ state[i] + credits[i] = Least(s + weight[i], steps[i])

\* Two jobs alike, as EqualJobsInterleave has it.
Alike(i, k) == /\ priority[i] = priority[k] /\ weight[i] = weight[k] /\ steps[i] = steps[k]
               /\ state[i] + credits[i] = state[k] + credits[k]

NoOverflow == \A i \in Jobs : priority[i] * weight[i] <= IntMax

\* A job that is not finished has completed its weight in every cycle so far; and of two alike
\* the one whose step executes is not ahead.
Fair ==
    /\ \A i \in Jobs \ runnable : Remaining(i) > 0 => state[i] \in Multiples(weight[i])
    /\ \A i \in runnable : \E s \in Nat : Entered(i, s)
    /\ NoOverflow => \A i, k \in runnable : Alike(i, k) =>
          /\ state[i] - state[k] \in -1..1
          /\ stack # <<>> /\ stack[1] = i => state[i] <= state[k]

\* Multiples of w are w apart.
LEMMA MultiplesApart ==
  ASSUME NEW w \in Nat \ {0}
  PROVE  /\ Multiples(w) \subseteq Nat /\ 0 \in Multiples(w)
         /\ \A a \in Multiples(w) : a + w \in Multiples(w)
         /\ \A a, b \in Multiples(w) : a < b => a + w <= b
<1>1. \A q \in Nat : q * w \in Nat /\ q * w + w = (q + 1) * w
  OBVIOUS
<1>2. 0 = 0 * w
  OBVIOUS
<1>3. Multiples(w) \subseteq Nat /\ 0 \in Multiples(w) /\ \A a \in Multiples(w) : a + w \in Multiples(w)
  <2>1. Multiples(w) \subseteq Nat /\ 0 \in Multiples(w)
    BY <1>1, <1>2 DEF Multiples
  <2>2. ASSUME NEW a \in Multiples(w) PROVE a + w \in Multiples(w)
    <3>1. PICK q \in Nat : a = q * w
      BY DEF Multiples
    <3>2. a + w = (q + 1) * w /\ q + 1 \in Nat
      BY <1>1, <3>1
    <3> QED BY <3>2 DEF Multiples
  <2> QED BY <2>1, <2>2
<1>4. ASSUME NEW a \in Multiples(w), NEW b \in Multiples(w), a < b
      PROVE  a + w <= b
  <2>1. PICK q \in Nat, r \in Nat : a = q * w /\ b = r * w
    BY DEF Multiples
  <2>2. q < r
    <3>1. CASE r <= q
      <4>1. (q - r) * w >= 0 /\ (q - r) * w = q * w - r * w
        BY <3>1
      <4> QED BY <1>1, <1>4, <2>1, <4>1
    <3> QED BY <3>1
  <2>3. (r - (q + 1)) * w >= 0 /\ (r - (q + 1)) * w = r * w - (q * w + w)
    BY <2>2
  <2> QED BY <1>1, <2>1, <2>3
<1> QED BY <1>3, <1>4

\* At the end of a cycle every job has completed its weight or its steps, so that two alike
\* that get the same credits are at the same step.
LEMMA RefillIsFair ==
  ASSUME CoInv, Balanced, Fair, stack = <<>>
  PROVE  /\ \A i \in Jobs \ CRunnable : Remaining(i) > 0 => state[i] \in Multiples(weight[i])
         /\ \A i \in CRunnable : \E s \in Nat :
               /\ s \in Multiples(weight[i]) /\ s <= state[i] /\ s < steps[i]
               /\ state[i] + CCredits[i] = Least(s + weight[i], steps[i])
         /\ NoOverflow => \A i, k \in CRunnable :
               /\ priority[i] = priority[k] /\ weight[i] = weight[k] /\ steps[i] = steps[k]
               /\ state[i] + CCredits[i] = state[k] + CCredits[k]
               => state[i] - state[k] \in -1..1
<1>0. \A i \in Jobs : /\ weight[i] \in Nat \ {0} /\ steps[i] \in Nat /\ state[i] \in Nat
                      /\ credits[i] \in 0..(steps[i] - state[i])
  <2>1. \A i \in Index : weight[i] \in Nat /\ steps[i] \in Nat /\ state[i] \in Nat
    BY SchedulerAssumption DEF CoInv, TypeOK
  <2>2. Jobs \subseteq Index
    BY RefillWithinSteps
  <2> QED BY <2>1, <2>2 DEF Balanced, Remaining
<1>1. CRunnable \in SUBSET Jobs /\ runnable \in SUBSET Jobs /\ Jobs \subseteq Index
      /\ credits \in [Index -> Int]
  BY RefillWithinSteps DEF CoInv, TypeOK
<1>2. CASE Refills
  <2>1. /\ CRunnable = {i \in Jobs : Remaining(i) > 0}
        /\ \A i \in CRunnable : CCredits[i] = Grant(i)
    BY <1>1, <1>2 DEF CRunnable, CCredits
  <2>2. \A i \in runnable : credits[i] = 0
    <3>1. /\ SumOf(credits, runnable) \in Nat /\ SumOf(credits, runnable) <= 0
          /\ SumOf(credits, runnable) > 0 <=> \E i \in runnable : credits[i] > 0
      BY <1>1, <1>2, SumCounts DEF Refills, Balanced
    <3>2. ~(SumOf(credits, runnable) > 0)
      BY <3>1
    <3> QED BY <1>0, <1>1, <3>1, <3>2
  <2>3. ASSUME NEW i \in Jobs, Remaining(i) > 0 PROVE state[i] \in Multiples(weight[i])
    <3>1. CASE i \in runnable
      <4>1. PICK s \in Nat : Entered(i, s)
        BY <3>1 DEF Fair
      <4>2. state[i] = s + weight[i] /\ s \in Multiples(weight[i])
        BY <1>0, <2>2, <2>3, <3>1, <4>1 DEF Entered, Least, Remaining
      <4> QED BY <1>0, <4>2, MultiplesApart
    <3>2. CASE i \notin runnable
      BY <2>3, <3>2 DEF Fair
    <3> QED BY <3>1, <3>2
  <2>4. ASSUME NEW i \in CRunnable
        PROVE  /\ state[i] \in Multiples(weight[i]) /\ state[i] < steps[i]
               /\ state[i] + CCredits[i] = Least(state[i] + weight[i], steps[i])
    BY <1>0, <1>1, <2>1, <2>3 DEF Grant, Least, Remaining
  <2>5. ASSUME NEW i \in CRunnable, NEW k \in CRunnable, weight[i] = weight[k], steps[i] = steps[k],
               state[i] < state[k]
        PROVE  state[i] + CCredits[i] < state[k] + CCredits[k]
    <3>1. state[i] + weight[i] <= state[k]
      BY <1>0, <1>1, <2>4, <2>5, MultiplesApart
    <3> QED BY <1>0, <1>1, <2>4, <2>5, <3>1 DEF Least
  <2>6. ASSUME NEW i \in CRunnable, NEW k \in CRunnable, weight[i] = weight[k], steps[i] = steps[k],
               state[i] + CCredits[i] = state[k] + CCredits[k]
        PROVE  state[i] = state[k]
    <3>1. \A a, b \in Nat : a = b \/ a < b \/ b < a
      OBVIOUS
    <3>2. \A i1 \in CRunnable : state[i1] + CCredits[i1] \in Int
      BY <1>0, <1>1, <2>4 DEF Least
    <3> QED BY <1>0, <1>1, <2>5, <2>6, <3>1, <3>2
  <2> QED BY <1>0, <1>1, <2>3, <2>4, <2>6
<1>3. CASE ~Refills
  <2>1. CRunnable = runnable /\ CCredits = credits
    BY <1>3 DEF CRunnable, CCredits
  <2> QED BY <2>1 DEF Fair, Entered, Alike
<1> QED BY <1>2, <1>3

\* The job that is selected is not ahead of one alike.
LEMMA BestIsNotAhead ==
  ASSUME CoInv, Balanced, Fair, stack = <<>>, NoOverflow,
         NEW i \in Candidates, Overflows \/ Best(i), NEW k \in CRunnable,
         priority[i] = priority[k], weight[i] = weight[k], steps[i] = steps[k],
         state[i] + CCredits[i] = state[k] + CCredits[k]
  PROVE  state[i] <= state[k]
<1>0. /\ CRunnable \in SUBSET Jobs /\ Jobs \subseteq Index /\ IntMax \in Nat
      /\ \A c \in CRunnable : /\ CCredits[c] \in Nat /\ state[c] \in Nat /\ priority[c] \in Nat
                              /\ weight[c] \in Nat /\ CCredits[c] <= weight[c]
  <2>1. CRunnable \in SUBSET Jobs /\ Jobs \subseteq Index /\ CCredits \in [Index -> Int]
    BY RefillWithinSteps
  <2>2. \A c \in Index : state[c] \in Nat /\ priority[c] \in Nat /\ weight[c] \in Nat /\ steps[c] \in Nat
    BY SchedulerAssumption DEF CoInv, TypeOK
  <2>3. \A c \in Jobs : CCredits[c] \in 0..Remaining(c) /\ CCredits[c] <= weight[c]
    BY RefillBalances
  <2> QED BY <2>1, <2>2, <2>3, SchedulerAssumption DEF Remaining
<1>1. i \in CRunnable /\ CCredits[i] > 0
  BY DEF Candidates
<1>2. ~Overflows
  <2> SUFFICES ASSUME NEW c \in Candidates, priority[c] * CCredits[c] > IntMax PROVE FALSE
    BY DEF Overflows
  <2>1. c \in CRunnable
    BY DEF Candidates
  <2>2. priority[c] * weight[c] <= IntMax
    BY <1>0, <2>1 DEF NoOverflow
  <2>3. \A p, a, b \in Nat : a <= b => p * a <= p * b
    <3> SUFFICES ASSUME NEW p \in Nat, NEW a \in Nat, NEW b \in Nat, a <= b PROVE p * a <= p * b
      OBVIOUS
    <3>1. p * (b - a) >= 0 /\ p * (b - a) = p * b - p * a
      OBVIOUS
    <3>2. p * a \in Nat /\ p * b \in Nat
      OBVIOUS
    <3> QED BY <3>1, <3>2
  <2>4. priority[c] * CCredits[c] <= priority[c] * weight[c]
    BY <1>0, <2>1, <2>3
  <2>5. \A p, a \in Nat : p * a \in Nat
    OBVIOUS
  <2>6. priority[c] * CCredits[c] \in Nat /\ priority[c] * weight[c] \in Nat
    BY <1>0, <2>1, <2>5
  <2> QED BY <1>0, <2>2, <2>4, <2>6
<1>3. ASSUME state[k] < state[i] PROVE FALSE
  <2>1. state[i] = state[k] + 1
    <3>1. state[i] - state[k] \in -1..1
      BY <1>1, RefillIsFair
    <3> QED BY <1>0, <1>1, <1>3, <3>1
  <2>2. CCredits[k] = CCredits[i] + 1
    BY <1>0, <1>1, <2>1
  <2>3. k \in Candidates
    BY <1>0, <1>1, <2>2 DEF Candidates
  <2>4. priority[i] * (CCredits[i] + 1) = priority[i] * CCredits[i] + priority[i]
        /\ priority[i] * CCredits[i] \in Nat
    BY <1>0, <1>1
  <2>5. Score(k) = Score(i) + priority[i] + 1 /\ Score(i) \in Int
    <3>1. priority[k] * CCredits[k] = priority[i] * CCredits[i] + priority[i]
      BY <2>2, <2>4
    <3>2. /\ Score(k) = (priority[i] * CCredits[i] + priority[i]) - state[k]
          /\ Score(i) = priority[i] * CCredits[i] - (state[k] + 1)
      BY <2>1, <3>1 DEF Score
    <3>3. \A a, p, s \in Nat : /\ (a + p) - s = (a - (s + 1)) + p + 1
                              /\ a - (s + 1) \in Int
      OBVIOUS
    <3>4. priority[i] * CCredits[i] \in Nat /\ priority[i] \in Nat /\ state[k] \in Nat
      BY <1>0, <1>1, <2>4
    <3>5. /\ (priority[i] * CCredits[i] + priority[i]) - state[k]
             = (priority[i] * CCredits[i] - (state[k] + 1)) + priority[i] + 1
          /\ priority[i] * CCredits[i] - (state[k] + 1) \in Int
      BY <3>3, <3>4, Zenon
    <3> QED BY <3>2, <3>5, Zenon
  <2>6. Score(k) < Score(i) \/ Score(k) = Score(i)
    BY <1>2, <2>3 DEF Best
  <2> QED BY <1>0, <1>1, <2>5, <2>6
<1> QED BY <1>0, <1>1, <1>3

LEMMA FairStays ==
  ASSUME CoInv, CoInv', Balanced, Fair, [Next]_vars
  PROVE  Fair'
<1>0. /\ count \in 0..MaxJobs /\ MaxJobs \in Nat /\ MaxSteps \in Nat \ {0} /\ MaxDepth = 1
      /\ steps \in [Index -> 0..MaxSteps] /\ weight \in [Index -> 0..MaxSteps]
      /\ priority \in [Index -> Nat] /\ state \in [Index -> Nat] /\ credits \in [Index -> Int]
      /\ runnable \in SUBSET Jobs /\ stack \in Seq(Jobs) /\ Jobs \subseteq Index
  <2>1. Jobs \subseteq Index
    BY RefillWithinSteps
  <2> QED BY <2>1, SchedulerAssumption DEF CoInv, TypeOK, Balanced, OneAtATime
<1>1. ASSUME NEW n \in 1..MaxSteps, NEW p \in Priorities, NEW w \in 1..MaxSteps, AddJob(n, p, w)
      PROVE  Fair'
  <2>1. /\ count < MaxJobs /\ count' = count + 1
        /\ steps' = [steps EXCEPT ![count + 1] = n] /\ weight' = [weight EXCEPT ![count + 1] = w]
        /\ priority' = [priority EXCEPT ![count + 1] = p]
        /\ state' = [state EXCEPT ![count + 1] = 0] /\ credits' = [credits EXCEPT ![count + 1] = 0]
        /\ UNCHANGED <<runnable, stack>>
    BY <1>1 DEF AddJob
  <2>2. count + 1 \in Index /\ count + 1 \notin Jobs /\ Jobs' = Jobs \cup {count + 1}
    BY <1>0, <2>1, JobsGrow DEF Jobs
  <2>3. \A i \in Jobs : /\ steps'[i] = steps[i] /\ weight'[i] = weight[i] /\ priority'[i] = priority[i]
                        /\ state'[i] = state[i] /\ credits'[i] = credits[i]
    BY <1>0, <2>1, <2>2
  <2>4. ASSUME NEW i \in Jobs' \ runnable', Remaining(i)' > 0
        PROVE  state'[i] \in Multiples(weight'[i])
    <3>1. CASE i = count + 1
      BY <1>0, <2>1, <2>2, <3>1, MultiplesApart
    <3>2. CASE i # count + 1
      BY <2>1, <2>2, <2>3, <2>4, <3>2 DEF Fair, Remaining
    <3> QED BY <3>1, <3>2
  <2>5. ASSUME NEW i \in runnable' PROVE \E s \in Nat : Entered(i, s)'
    <3>1. i \in runnable /\ i \in Jobs
      BY <1>0, <2>1
    <3>2. PICK s \in Nat : Entered(i, s)
      BY <3>1 DEF Fair
    <3> QED BY <2>3, <3>1, <3>2 DEF Entered
  <2>6. NoOverflow' => NoOverflow
    BY <2>2, <2>3 DEF NoOverflow
  <2>7. ASSUME NEW i \in runnable', NEW k \in runnable', Alike(i, k)'
        PROVE  i \in runnable /\ k \in runnable /\ Alike(i, k) /\ state'[i] = state[i]
               /\ state'[k] = state[k]
    BY <1>0, <2>1, <2>3, <2>7 DEF Alike
  <2>8. NoOverflow' => \A i, k \in runnable' : Alike(i, k)' =>
          /\ state'[i] - state'[k] \in -1..1
          /\ stack' # <<>> /\ stack'[1] = i => state'[i] <= state'[k]
    BY <2>1, <2>6, <2>7 DEF Fair
  <2> QED BY <2>4, <2>5, <2>8 DEF Fair
<1>2. CASE Tick
  <2>1. /\ credits' = CCredits /\ runnable' = CRunnable
        /\ UNCHANGED <<count, steps, priority, weight, state>> /\ Len(stack) < 1
    BY <1>0, <1>2 DEF Tick, TickIdle, TickCalls, MayTick, jobs
  <2>2. stack = <<>> /\ Jobs' = Jobs
    BY <1>0, <2>1 DEF Jobs
  <2>3. \A i \in Jobs' \ runnable' : Remaining(i)' > 0 => state'[i] \in Multiples(weight'[i])
    BY <2>1, <2>2, RefillIsFair DEF Remaining
  <2>4. \A i \in runnable' : \E s \in Nat : Entered(i, s)'
    BY <2>1, <2>2, RefillIsFair DEF Entered
  <2>5. NoOverflow' => \A i, k \in runnable' : Alike(i, k)' => state'[i] - state'[k] \in -1..1
    BY <2>1, <2>2, RefillIsFair DEF Alike, NoOverflow
  <2>6. CASE TickIdle
    BY <2>2, <2>3, <2>4, <2>5, <2>6 DEF TickIdle, Fair
  <2>7. ASSUME NEW j \in Jobs, TickCalls(j)
        PROVE  Fair'
    <3>1. j \in Candidates /\ (Overflows \/ Best(j)) /\ stack' = <<j>>
      BY <2>2, <2>7 DEF TickCalls
    <3>2. NoOverflow' => \A k \in runnable' : Alike(j, k)' => state'[j] <= state'[k]
      BY <2>1, <2>2, <3>1, BestIsNotAhead DEF Alike, NoOverflow
    <3> QED BY <2>3, <2>4, <2>5, <3>1, <3>2 DEF Fair
  <2> QED BY <1>2, <2>6, <2>7 DEF Tick
<1>3. CASE StepReturns
  <2> DEFINE j == stack[Len(stack)]
  <2>1. /\ Len(stack) \in Nat \ {0} /\ stack # <<>>
        /\ Len(SubSeq(stack, 1, Len(stack) - 1)) = Len(stack) - 1
    BY <1>3, TopOfStack DEF StepReturns, CoInv
  <2>2. j = stack[1] /\ j \in runnable /\ j \in Index
    BY <1>0, <2>1 DEF Balanced
  <2>3. /\ state' = [state EXCEPT ![j] = state[j] + 1]
        /\ credits' = [credits EXCEPT ![j] = credits[j] - 1]
        /\ stack' = SubSeq(stack, 1, Len(stack) - 1)
        /\ UNCHANGED <<count, steps, priority, weight, runnable>>
    BY <1>3 DEF StepReturns, jobs
  <2>4. stack' = <<>>
    <3>1. Len(stack) = 1 /\ stack' \in Seq(Jobs')
      BY <2>1 DEF CoInv, TypeOK, Balanced
    <3> QED BY <2>1, <2>3, <3>1
  <2> HIDE DEF j
  <2>5. \A i \in Jobs : /\ state'[i] + credits'[i] = state[i] + credits[i]
                        /\ state'[i] = IF i = j THEN state[i] + 1 ELSE state[i]
                        /\ state[i] \in Nat /\ steps[i] \in Nat /\ weight[i] \in Nat
    <3> TAKE i \in Jobs
    <3>1. /\ i \in Index /\ state[i] \in Nat /\ credits[i] \in Int
          /\ steps[i] \in Nat /\ weight[i] \in Nat
      BY <1>0
    <3>2. CASE i = j
      BY <1>0, <2>3, <3>1, <3>2
    <3>3. CASE i # j
      BY <1>0, <2>3, <3>1, <3>3
    <3> QED BY <3>2, <3>3
  <2>6. \A i \in Jobs' \ runnable' : Remaining(i)' > 0 => state'[i] \in Multiples(weight'[i])
    BY <2>2, <2>3, <2>5 DEF Fair, Remaining, Jobs
  <2>7. ASSUME NEW i \in runnable' PROVE \E s \in Nat : Entered(i, s)'
    <3>1. PICK s \in Nat : Entered(i, s)
      BY <2>3 DEF Fair
    <3>2. s <= state'[i]
      BY <1>0, <2>3, <2>5, <3>1 DEF Entered
    <3> QED BY <1>0, <2>3, <2>5, <3>1, <3>2 DEF Entered
  <2>8. ASSUME NoOverflow', NEW i \in runnable', NEW k \in runnable', Alike(i, k)'
        PROVE  state'[i] - state'[k] \in -1..1
    <3>1. i \in runnable /\ k \in runnable /\ Alike(i, k) /\ Alike(k, i) /\ NoOverflow
      BY <1>0, <2>3, <2>5, <2>8 DEF Alike, NoOverflow, Jobs
    <3>2. /\ state[i] - state[k] \in -1..1
          /\ i = j => state[i] <= state[k]
          /\ k = j => state[k] <= state[i]
      BY <2>1, <2>2, <3>1 DEF Fair
    <3>3. /\ state'[i] = IF i = j THEN state[i] + 1 ELSE state[i]
          /\ state'[k] = IF k = j THEN state[k] + 1 ELSE state[k]
          /\ state[i] \in Nat /\ state[k] \in Nat
      BY <1>0, <2>5, <3>1
    <3>4. CASE i = j /\ k = j
      BY <3>3, <3>4
    <3>5. CASE i # j \/ k # j
      BY <3>2, <3>3, <3>5
    <3> QED BY <3>4, <3>5
  <2> QED BY <2>4, <2>6, <2>7, <2>8 DEF Fair
<1>4. CASE UNCHANGED vars
  BY <1>4 DEF vars, jobs, Fair, Entered, Alike, NoOverflow, Jobs, Remaining
<1> QED BY <1>1, <1>2, <1>3, <1>4 DEF Next

\* Where no step calls tick, two jobs alike that entered the cycle at the same step are never
\* two steps apart, whatever the other jobs are, as long as no score overflows.
THEOREM EqualJobsTakeTurns == OneAtATime /\ Spec => []EqualJobsInterleave
<1>1. Init => Fair
  BY DEF Init, Fair, Jobs
<1>2. Fair => EqualJobsInterleave
  BY DEF Fair, EqualJobsInterleave, Alike, NoOverflow
<1> QED BY <1>1, <1>2, FairStays, BalanceHolds, PTL DEF Spec
=============================================================================
