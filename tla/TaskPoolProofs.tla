--------------------------- MODULE TaskPoolProofs ---------------------------
(***************************************************************************)
(* The properties of TaskPool for every number of workers, closers and     *)
(* jobs, every capacity of the queue, and every number of calls: what the  *)
(* steps of a pool do to the records of its workers and of its closers,    *)
(* field by field; the inductive invariant on which all the rest builds;   *)
(* what becomes of the jobs and of the workers, to the end of the pool,    *)
(* and that the pool implements JobQueue; the permits of its gate: while   *)
(* the pool runs no wakeup is in vain, when it closes nobody is left       *)
(* behind, and an orderly drain leaves no job.                             *)
(***************************************************************************)
EXTENDS TaskPool, FiniteSetTheorems, TLAPS

-----------------------------------------------------------------------------
(* Steps and records                                                       *)

WorkerType == [pc : WorkerPc, seen : State, job : Job \cup {NoJob}]

\* Worker w ends up at p, with the state it has seen and the job it has; no other moves.
WorkerBecomes(w, p, seen, job) ==
    /\ worker' \in [Worker -> WorkerType]
    /\ \A v \in Worker \ {w} : worker'[v] = worker[v]
    /\ worker'[w].pc = p /\ worker'[w].seen = seen /\ worker'[w].job = job

\* The records of the workers after each of their steps.
LEMMA WorkerRecords ==
  ASSUME TypeOK, NEW w \in Worker
  PROVE  /\ WorkerGate(w) => WorkerBecomes(w, "lock", worker[w].seen, worker[w].job)
         /\ WorkerLock(w) => WorkerBecomes(w, "inspect", state, worker[w].job)
         /\ WorkerLeaves(w) =>
              WorkerBecomes(w, IF worker[w].seen = "running" THEN "gate" ELSE "exit",
                            worker[w].seen, worker[w].job)
         /\ WorkerTakes(w) => WorkerBecomes(w, "run", worker[w].seen, slots[head])
         /\ WorkerRuns(w) => WorkerBecomes(w, "complete", worker[w].seen, worker[w].job)
         /\ WorkerCompletes(w) => WorkerBecomes(w, "leave", worker[w].seen, worker[w].job)
         /\ WorkerNotActive(w) => WorkerBecomes(w, "check", worker[w].seen, NoJob)
         /\ WorkerChecks(w) =>
              WorkerBecomes(w, IF state = "drain" THEN "signal" ELSE "gate",
                            worker[w].seen, worker[w].job)
         /\ WorkerSignals(w) => WorkerBecomes(w, "gate", worker[w].seen, worker[w].job)
<1>0. /\ worker \in [Worker -> WorkerType]
      /\ state \in State
      /\ slots[head] \in Job \cup {NoJob}
  BY DEF TypeOK, WorkerType
<1>1. ASSUME NEW p \in WorkerPc, worker' = [worker EXCEPT ![w].pc = p]
      PROVE  WorkerBecomes(w, p, worker[w].seen, worker[w].job)
  BY <1>0, <1>1 DEF WorkerBecomes, WorkerType
<1>2. ASSUME NEW p \in WorkerPc, NEW j \in Job \cup {NoJob},
             worker' = [worker EXCEPT ![w].pc = p, ![w].job = j]
      PROVE  WorkerBecomes(w, p, worker[w].seen, j)
  BY <1>0, <1>2 DEF WorkerBecomes, WorkerType
<1>3. ASSUME worker' = [worker EXCEPT ![w].pc = "inspect", ![w].seen = state]
      PROVE  WorkerBecomes(w, "inspect", state, worker[w].job)
  BY <1>0, <1>3 DEF WorkerBecomes, WorkerType, WorkerPc
<1>4. {"lock", "run", "complete", "leave", "check", "signal", "gate", "exit"} \subseteq WorkerPc
  BY DEF WorkerPc
<1> HIDE DEF WorkerBecomes
<1>5. WorkerGate(w) => WorkerBecomes(w, "lock", worker[w].seen, worker[w].job)
  BY <1>1, <1>4 DEF WorkerGate
<1>6. WorkerLeaves(w) =>
        WorkerBecomes(w, IF worker[w].seen = "running" THEN "gate" ELSE "exit",
                      worker[w].seen, worker[w].job)
  BY <1>1, <1>4 DEF WorkerLeaves
<1>7. WorkerTakes(w) => WorkerBecomes(w, "run", worker[w].seen, slots[head])
  BY <1>0, <1>2, <1>4 DEF WorkerTakes
<1>8. WorkerRuns(w) => WorkerBecomes(w, "complete", worker[w].seen, worker[w].job)
  BY <1>1, <1>4 DEF WorkerRuns
<1>9. WorkerCompletes(w) => WorkerBecomes(w, "leave", worker[w].seen, worker[w].job)
  BY <1>1, <1>4 DEF WorkerCompletes
<1>10. WorkerNotActive(w) => WorkerBecomes(w, "check", worker[w].seen, NoJob)
  BY <1>2, <1>4 DEF WorkerNotActive
<1>11. WorkerChecks(w) =>
         WorkerBecomes(w, IF state = "drain" THEN "signal" ELSE "gate",
                       worker[w].seen, worker[w].job)
  BY <1>1, <1>4 DEF WorkerChecks
<1>12. WorkerSignals(w) => WorkerBecomes(w, "gate", worker[w].seen, worker[w].job)
  BY <1>1, <1>4 DEF WorkerSignals
<1>13. WorkerLock(w) => WorkerBecomes(w, "inspect", state, worker[w].job)
  BY <1>3 DEF WorkerLock
<1> QED BY <1>5, <1>6, <1>7, <1>8, <1>9, <1>10, <1>11, <1>12, <1>13

\* Closer c ends up at p, with these fields; no other moves.
CloserBecomes(c, p, mode, left, result, owed) ==
    /\ close' \in [Closer -> CloseCall]
    /\ \A d \in Closer \ {c} : close'[d] = close[d]
    /\ close'[c].pc = p /\ close'[c].mode = mode /\ close'[c].left = left
    /\ close'[c].result = result /\ close'[c].owed = owed

\* Closer c moves to p and keeps what else there is about its call.
CloserMoves(c, p) ==
    CloserBecomes(c, p, close[c].mode, close[c].left, close[c].result, close[c].owed)

\* A step that moves the program counter of one closer.
LEMMA CloserPcMoves ==
  ASSUME TypeOK, NEW c \in Closer, NEW p \in ClosePc, close' = [close EXCEPT ![c].pc = p]
  PROVE  CloserMoves(c, p)
<1>1. [close[c] EXCEPT !.pc = p] \in CloseCall
  <2>  DEFINE call == close[c]
  <2>1. call \in CloseCall
    BY DEF TypeOK
  <2>  HIDE DEF call
  <2>2. [call EXCEPT !.pc = p] \in CloseCall
    BY <2>1 DEF CloseCall
  <2> QED BY <2>2 DEF call
<1> QED BY <1>1 DEF TypeOK, CloserMoves, CloserBecomes, CloseCall

\* The records of the closers after each of their steps.
LEMMA CloserRecords ==
  ASSUME TypeOK, NEW c \in Closer
  PROVE  /\ CloseReadQueue(c) => CloserMoves(c, IF count = 0 THEN "active" ELSE "sleep")
         /\ CloseSleeps(c) =>
              CloserMoves(c, IF close[c].mode = "drain" THEN "queued" ELSE "active")
         /\ CloseReadActive(c) =>
              CloserBecomes(c, IF active = 0 THEN "final" ELSE "sleep", close[c].mode,
                            WorkerCount, close[c].result, close[c].owed)
         /\ CloseStore(c) =>
              CloserBecomes(c, "wake", close[c].mode, WorkerCount, close[c].result,
                            ToSet(accepted))
         /\ CloseTimesOut(c) =>
              CloserBecomes(c, "idle", close[c].mode, close[c].left, "Timeout", close[c].owed)
         /\ CloseWake(c) /\ close[c].left > 0 =>
              CloserBecomes(c, IF close[c].left > 1 THEN "wake"
                               ELSE IF close[c].mode = "drain" THEN "queued" ELSE "active",
                            close[c].mode, close[c].left - 1, close[c].result, close[c].owed)
         /\ CloseDrain(c) =>
              CloserBecomes(c, IF state = "abort" THEN "idle" ELSE "store", "drain",
                            close[c].left, IF state = "abort" THEN "InvalidState" ELSE "none",
                            close[c].owed)
         /\ CloseAbort(c) =>
              CloserBecomes(c, "store", "abort", close[c].left, "none", close[c].owed)
         /\ CloseFinal(c) =>
              CloserBecomes(c, IF close[c].left > 1 THEN "final"
                               ELSE IF close[c].destroys THEN "join" ELSE "idle",
                            close[c].mode,
                            IF close[c].left > 1 THEN close[c].left - 1 ELSE close[c].left,
                            IF close[c].left > 1 \/ close[c].destroys THEN close[c].result
                            ELSE "NoError", close[c].owed)
         /\ c = Owner /\ CreateFails => CloserMoves(c, "undoWake")
         /\ c = Owner /\ UndoWake /\ close[c].left > 0 =>
              CloserBecomes(c, IF close[c].left = 1 THEN "undoJoin" ELSE "undoWake",
                            close[c].mode, close[c].left - 1, close[c].result, close[c].owed)
         /\ c = Owner /\ UndoDestroy => CloserMoves(c, "failed")
         /\ c = Owner /\ CallDestroy =>
              CloserBecomes(c, "store", "abort", close[c].left, "none", close[c].owed)
         /\ c = Owner /\ DestroyFails =>
              CloserBecomes(c, "idle", close[c].mode, close[c].left, "Irrecoverable", close[c].owed)
         /\ c = Owner /\ DestroyPool =>
              \E result \in {"NoError", "Irrecoverable"} :
                 CloserBecomes(c, "destroyed", close[c].mode, close[c].left, result, close[c].owed)
<1> DEFINE call == close[c]
<1>0. /\ close \in [Closer -> CloseCall] /\ call \in CloseCall
      /\ call.pc \in ClosePc /\ call.mode \in {"drain", "abort"} /\ call.left \in 0..WorkerCount
      /\ WorkerCount \in 0..WorkerCount /\ WorkerCount \in Nat
      /\ {"idle", "store", "wake", "queued", "active", "sleep", "final", "join"} \subseteq ClosePc
      /\ {"none", "NoError", "Timeout", "InvalidState", "Irrecoverable"} \subseteq Result
  BY PoolAssumption DEF TypeOK, CloseCall, ClosePc, Result
<1>1. ASSUME NEW r \in CloseCall, close' = [close EXCEPT ![c] = r]
      PROVE  CloserBecomes(c, r.pc, r.mode, r.left, r.result, r.owed)
  BY <1>0, <1>1 DEF CloserBecomes
<1>2. ASSUME NEW p \in ClosePc, close' = [close EXCEPT ![c].pc = p]
      PROVE  CloserMoves(c, p)
  BY <1>2, CloserPcMoves
<1>3. ASSUME NEW p \in ClosePc, NEW l \in 0..WorkerCount,
             close' = [close EXCEPT ![c].pc = p, ![c].left = l]
      PROVE  CloserBecomes(c, p, call.mode, l, call.result, call.owed)
  <2>1. [call EXCEPT !.pc = p, !.left = l] \in CloseCall
    BY <1>0 DEF CloseCall
  <2>2. close' = [close EXCEPT ![c] = [call EXCEPT !.pc = p, !.left = l]]
    BY <1>0, <1>3
  <2> QED BY <1>0, <1>1, <2>1, <2>2 DEF CloseCall
<1> HIDE DEF call
<1>4. CloseReadQueue(c) => CloserMoves(c, IF count = 0 THEN "active" ELSE "sleep")
  BY <1>0, <1>2 DEF CloseReadQueue
<1>5. CloseSleeps(c) => CloserMoves(c, IF close[c].mode = "drain" THEN "queued" ELSE "active")
  BY <1>0, <1>2 DEF CloseSleeps
<1>6. CloseReadActive(c) =>
        CloserBecomes(c, IF active = 0 THEN "final" ELSE "sleep", close[c].mode,
                      WorkerCount, close[c].result, close[c].owed)
  BY <1>0, <1>3 DEF CloseReadActive, call
<1>7. CloseStore(c) =>
        CloserBecomes(c, "wake", close[c].mode, WorkerCount, close[c].result, ToSet(accepted))
  <2> SUFFICES ASSUME CloseStore(c)
               PROVE  CloserBecomes(c, "wake", call.mode, WorkerCount, call.result, ToSet(accepted))
    BY DEF call
  <2> DEFINE r == [call EXCEPT !.pc = "wake", !.left = WorkerCount, !.owed = ToSet(accepted)]
  <2>1. ToSet(accepted) \in SUBSET Job
    BY DEF TypeOK, ToSet
  <2>2. r \in CloseCall /\ r.pc = "wake" /\ r.mode = call.mode /\ r.left = WorkerCount
        /\ r.result = call.result /\ r.owed = ToSet(accepted)
    BY <1>0, <2>1 DEF CloseCall
  <2>3. close' = [close EXCEPT ![c] = r]
    BY <1>0 DEF CloseStore, call
  <2> QED BY <1>1, <2>2, <2>3
<1>8. CloseTimesOut(c) =>
        CloserBecomes(c, "idle", close[c].mode, close[c].left, "Timeout", close[c].owed)
  <2> DEFINE r == Returns(c, "Timeout")
  <2>1. r \in CloseCall /\ r.pc = "idle" /\ r.mode = call.mode /\ r.left = call.left
        /\ r.result = "Timeout" /\ r.owed = call.owed
    BY <1>0 DEF CloseCall, Returns, call
  <2> QED BY <1>1, <2>1 DEF CloseTimesOut, call
<1>9. CloseWake(c) /\ close[c].left > 0 =>
        CloserBecomes(c, IF close[c].left > 1 THEN "wake"
                         ELSE IF close[c].mode = "drain" THEN "queued" ELSE "active",
                      close[c].mode, close[c].left - 1, close[c].result, close[c].owed)
  <2> SUFFICES ASSUME CloseWake(c), call.left > 0
               PROVE  CloserBecomes(c, IF call.left > 1 THEN "wake"
                                       ELSE IF call.mode = "drain" THEN "queued" ELSE "active",
                                    call.mode, call.left - 1, call.result, call.owed)
    BY DEF call
  <2> DEFINE p == IF call.left > 1 THEN "wake" ELSE IF call.mode = "drain" THEN "queued" ELSE "active"
  <2>1. p \in ClosePc /\ call.left - 1 \in 0..WorkerCount
    BY <1>0
  <2>2. close' = [close EXCEPT ![c].pc = p, ![c].left = call.left - 1]
    BY <1>0 DEF CloseWake, call
  <2> HIDE DEF p
  <2>3. CloserBecomes(c, p, call.mode, call.left - 1, call.result, call.owed)
    BY <1>3, <2>1, <2>2
  <2> QED BY <2>3 DEF p
<1>10. CloseDrain(c) =>
         CloserBecomes(c, IF state = "abort" THEN "idle" ELSE "store", "drain",
                       close[c].left, IF state = "abort" THEN "InvalidState" ELSE "none",
                       close[c].owed)
  <2> DEFINE p == IF state = "abort" THEN "idle" ELSE "store"
             s == IF state = "abort" THEN "InvalidState" ELSE "none"
             r(t) == [call EXCEPT !.pc = p, !.result = s, !.mode = "drain", !.timed = t]
  <2>1. \A t \in BOOLEAN : r(t) \in CloseCall /\ r(t).pc = p /\ r(t).mode = "drain"
                            /\ r(t).left = call.left /\ r(t).result = s /\ r(t).owed = call.owed
    BY <1>0 DEF CloseCall
  <2>2. CloseDrain(c) => \E t \in BOOLEAN : close' = [close EXCEPT ![c] = r(t)]
    BY <1>0, PoolAssumption DEF CloseDrain, call
  <2> SUFFICES ASSUME CloseDrain(c)
               PROVE  CloserBecomes(c, p, "drain", call.left, s, call.owed)
    BY DEF call
  <2>3. PICK t \in BOOLEAN : close' = [close EXCEPT ![c] = r(t)]
    BY <2>2
  <2> HIDE DEF p, s, r
  <2>4. CloserBecomes(c, r(t).pc, r(t).mode, r(t).left, r(t).result, r(t).owed)
    BY <1>1, <2>1, <2>3
  <2> QED BY <2>1, <2>4
<1>11. CloseAbort(c) =>
         CloserBecomes(c, "store", "abort", close[c].left, "none", close[c].owed)
  <2> DEFINE r(t) == [call EXCEPT !.pc = "store", !.result = "none", !.mode = "abort", !.timed = t]
  <2>1. \A t \in BOOLEAN : r(t) \in CloseCall /\ r(t).pc = "store" /\ r(t).mode = "abort"
                            /\ r(t).left = call.left /\ r(t).result = "none"
                            /\ r(t).owed = call.owed
    BY <1>0 DEF CloseCall
  <2>2. CloseAbort(c) => \E t \in BOOLEAN : close' = [close EXCEPT ![c] = r(t)]
    BY <1>0, PoolAssumption DEF CloseAbort, call
  <2> QED BY <1>1, <2>1, <2>2 DEF call
<1>12. CloseFinal(c) =>
         CloserBecomes(c, IF close[c].left > 1 THEN "final"
                          ELSE IF close[c].destroys THEN "join" ELSE "idle",
                       close[c].mode,
                       IF close[c].left > 1 THEN close[c].left - 1 ELSE close[c].left,
                       IF close[c].left > 1 \/ close[c].destroys THEN close[c].result
                       ELSE "NoError", close[c].owed)
  <2> SUFFICES ASSUME CloseFinal(c)
               PROVE  CloserBecomes(c, IF call.left > 1 THEN "final"
                                       ELSE IF call.destroys THEN "join" ELSE "idle",
                          call.mode, IF call.left > 1 THEN call.left - 1 ELSE call.left,
                          IF call.left > 1 \/ call.destroys THEN call.result ELSE "NoError",
                          call.owed)
    BY DEF call
  <2>0. call.pc = "final" /\ call.left > 1 => call.left - 1 \in 0..WorkerCount
    BY <1>0 DEF CloseFinal, call
  <2>1. CASE call.left > 1
    <3> DEFINE r == [call EXCEPT !.left = call.left - 1]
    <3>1. r \in CloseCall /\ r.pc = "final" /\ r.mode = call.mode /\ r.left = call.left - 1
          /\ r.result = call.result /\ r.owed = call.owed
      BY <1>0, <2>0, <2>1 DEF CloseCall, CloseFinal, call
    <3>2. close[c].left > 1
      BY <2>1 DEF call
    <3>3. close' = [close EXCEPT ![c] = r]
      BY <3>2 DEF CloseFinal, call
    <3> QED BY <1>1, <2>1, <3>1, <3>3
  <2>2. CASE ~(call.left > 1) /\ call.destroys
    <3> DEFINE r == [call EXCEPT !.pc = "join"]
    <3>1. r \in CloseCall /\ r.pc = "join" /\ r.mode = call.mode /\ r.left = call.left
          /\ r.result = call.result /\ r.owed = call.owed
      BY <1>0 DEF CloseCall
    <3>2. close' = [close EXCEPT ![c] = r]
      BY <1>0, <2>2 DEF CloseFinal, call
    <3> QED BY <1>1, <2>2, <3>1, <3>2
  <2>3. CASE ~(call.left > 1) /\ ~call.destroys
    <3> DEFINE r == [call EXCEPT !.pc = "idle", !.result = "NoError", !.destroys = FALSE]
    <3>1. r \in CloseCall /\ r.pc = "idle" /\ r.mode = call.mode /\ r.left = call.left
          /\ r.result = "NoError" /\ r.owed = call.owed
      BY <1>0 DEF CloseCall
    <3>2. close' = [close EXCEPT ![c] = r]
      BY <1>0, <2>3 DEF CloseFinal, Returns, call
    <3> QED BY <1>1, <2>3, <3>1, <3>2
  <2> QED BY <2>1, <2>2, <2>3
<1>13. c = Owner /\ CreateFails => CloserMoves(c, "undoWake")
  BY <1>2 DEF CreateFails, ClosePc
<1>14. c = Owner /\ UndoWake /\ close[c].left > 0 =>
         CloserBecomes(c, IF close[c].left = 1 THEN "undoJoin" ELSE "undoWake",
                       close[c].mode, close[c].left - 1, close[c].result, close[c].owed)
  <2> SUFFICES ASSUME c = Owner, UndoWake, call.left > 0
               PROVE  CloserBecomes(c, IF call.left = 1 THEN "undoJoin" ELSE "undoWake",
                                    call.mode, call.left - 1, call.result, call.owed)
    BY DEF call
  <2> DEFINE p == IF call.left = 1 THEN "undoJoin" ELSE "undoWake"
  <2>1. p \in ClosePc /\ call.left - 1 \in 0..WorkerCount
    BY <1>0 DEF ClosePc
  <2>2. close' = [close EXCEPT ![c].pc = p, ![c].left = call.left - 1]
    BY <1>0 DEF UndoWake, call
  <2> HIDE DEF p
  <2>3. CloserBecomes(c, p, call.mode, call.left - 1, call.result, call.owed)
    BY <1>3, <2>1, <2>2
  <2> QED BY <2>3 DEF p
<1>15. c = Owner /\ UndoDestroy => CloserMoves(c, "failed")
  BY <1>2 DEF UndoDestroy, ClosePc
<1>16. c = Owner /\ CallDestroy =>
         CloserBecomes(c, "store", "abort", close[c].left, "none", close[c].owed)
  <2> DEFINE r == [call EXCEPT !.pc = "store", !.mode = "abort", !.timed = TRUE,
                               !.destroys = TRUE, !.result = "none"]
  <2>1. r \in CloseCall /\ r.pc = "store" /\ r.mode = "abort" /\ r.left = call.left
        /\ r.result = "none" /\ r.owed = call.owed
    BY <1>0 DEF CloseCall
  <2>2. c = Owner /\ CallDestroy => close' = [close EXCEPT ![c] = r]
    BY <1>0 DEF CallDestroy, call
  <2> QED BY <1>1, <2>1, <2>2 DEF call
<1>17. c = Owner /\ DestroyFails =>
         CloserBecomes(c, "idle", close[c].mode, close[c].left, "Irrecoverable", close[c].owed)
  <2> DEFINE r == Returns(c, "Irrecoverable")
  <2>1. r \in CloseCall /\ r.pc = "idle" /\ r.mode = call.mode /\ r.left = call.left
        /\ r.result = "Irrecoverable" /\ r.owed = call.owed
    BY <1>0 DEF CloseCall, Returns, call
  <2> QED BY <1>1, <2>1 DEF DestroyFails, call
<1>18. c = Owner /\ DestroyPool =>
         \E result \in {"NoError", "Irrecoverable"} :
            CloserBecomes(c, "destroyed", close[c].mode, close[c].left, result, close[c].owed)
  <2> SUFFICES ASSUME c = Owner, DestroyPool
               PROVE  \E result \in {"NoError", "Irrecoverable"} :
                         CloserBecomes(c, "destroyed", call.mode, call.left, result, call.owed)
    BY DEF call
  <2> DEFINE r(result) == [call EXCEPT !.pc = "destroyed", !.result = result]
  <2>1. \A result \in {"NoError", "Irrecoverable"} :
           /\ r(result) \in CloseCall /\ r(result).pc = "destroyed" /\ r(result).mode = call.mode
           /\ r(result).left = call.left /\ r(result).result = result /\ r(result).owed = call.owed
    BY <1>0 DEF CloseCall, ClosePc
  <2>2. PICK result \in {"NoError", "Irrecoverable"} :
           close' = [close EXCEPT ![Owner].pc = "destroyed", ![Owner].result = result]
    BY Zenon DEF DestroyPool
  <2>3. close' = [close EXCEPT ![c] = r(result)]
    BY <1>0, <2>2 DEF call
  <2> HIDE DEF r
  <2>4. CloserBecomes(c, r(result).pc, r(result).mode, r(result).left, r(result).result,
                      r(result).owed)
    BY <1>1, <2>1, <2>3
  <2> QED BY <2>1, <2>4
<1> QED BY <1>4, <1>5, <1>6, <1>7, <1>8, <1>9, <1>10, <1>11, <1>12, <1>13, <1>14, <1>15,
           <1>16, <1>17, <1>18

-----------------------------------------------------------------------------
(* Type correctness                                                        *)

\* task_pool_init starts the workers one after the other.
CreatedInOrder ==
    close[Owner].pc = "create" =>
        \E k \in 0..(WorkerCount - 1) : \A w \in Worker : worker[w].pc # "none" <=> w <= k

\* The worker that holds the mutex is the one that looks at the queue.
Held == \A w \in Worker : worker[w].pc = "inspect" <=> mutex = w

\* A loop over the workers has some left as long as it runs.
LeftCounts == \A c \in Closer :
    /\ close[c].pc = "create" => close[c].left = WorkerCount
    /\ close[c].pc \in {"undoWake", "wake", "final"} => close[c].left > 0

\* active_jobs is the number of workers that are busy with a job.
Busy        == {w \in Worker : worker[w].pc \in {"run", "complete", "leave"}}
BusyCounted == active = Cardinality(Busy)

\* A worker has a job from the moment it takes one until it is done with it.
Employed == \A w \in Worker : worker[w].job # NoJob <=> worker[w].pc \in {"run", "complete", "leave"}

\* pending_jobs is the number of accepted jobs that nobody took, and they are in the ring.
QueueCounted == count = Len(accepted) - taken
QueueInRing  == /\ tail = (head + count) % MaxPending
                /\ \A k \in 1..count : slots[(head + k - 1) % MaxPending] = accepted[taken + k]

\* A worker's job was taken from the queue.
JobsWereTaken == \A w \in Worker : worker[w].job # NoJob =>
                     \E k \in 1..taken : worker[w].job = accepted[k]

PoolInv == /\ TypeOK /\ CreatedInOrder /\ Held /\ LeftCounts /\ BusyCounted /\ Employed
           /\ QueueCounted /\ QueueInRing /\ JobsWereTaken

\* The workers form a finite set; one more or one less in a part of it is one more or one
\* less in its number.
LEMMA CountedWorkers ==
  ASSUME NEW S \in SUBSET Worker
  PROVE  /\ Cardinality(S) \in 0..WorkerCount
         /\ \A w \in Worker \ S : Cardinality(S \cup {w}) = Cardinality(S) + 1
         /\ \A w \in S : Cardinality(S \ {w}) = Cardinality(S) - 1
<1>1. IsFiniteSet(Worker) /\ Cardinality(Worker) = WorkerCount
  BY FS_Interval, PoolAssumption DEF Worker
<1>2. IsFiniteSet(S) /\ Cardinality(S) <= WorkerCount
  BY <1>1, FS_Subset
<1>3. Cardinality(S) \in 0..WorkerCount
  BY <1>2, FS_CardinalityType, PoolAssumption
<1> QED BY <1>2, <1>3, FS_AddElement, FS_RemoveElement

\* One step of task_pool_init starts the first worker that was not started.
LEMMA CreateRecords ==
  ASSUME TypeOK, CreatedInOrder, CreateWorker
  PROVE  /\ \E w \in Worker : /\ worker[w].pc = "none"
                              /\ WorkerBecomes(w, "gate", worker[w].seen, worker[w].job)
         /\ close' = close \/ CloserMoves(Owner, "idle")
         /\ CreatedInOrder'
<1>1. PICK k \in 0..(WorkerCount - 1) : \A w \in Worker : worker[w].pc # "none" <=> w <= k
  BY DEF CreatedInOrder, CreateWorker
<1>2. Cardinality(Created) = k
  <2>1. Created = 1..k
    BY <1>1, PoolAssumption DEF Created, Worker
  <2> QED BY <2>1, FS_Interval
<1>3. k + 1 \in Worker /\ worker[k + 1].pc = "none"
  BY <1>1, PoolAssumption DEF Worker
<1>4. WorkerBecomes(k + 1, "gate", worker[k + 1].seen, worker[k + 1].job)
  BY <1>2, <1>3 DEF CreateWorker, TypeOK, WorkerBecomes, WorkerType, WorkerPc
<1>5. CASE k + 1 = WorkerCount
  <2>1. close' = [close EXCEPT ![Owner].pc = "idle"]
    BY <1>2, <1>5 DEF CreateWorker
  <2>2. CloserMoves(Owner, "idle")
    BY <2>1, CloserPcMoves, PoolAssumption DEF ClosePc
  <2> QED BY <1>3, <1>4, <2>2 DEF CreatedInOrder, CloserMoves, CloserBecomes
<1>6. CASE k + 1 # WorkerCount
  <2>1. close' = close
    BY <1>2, <1>6 DEF CreateWorker
  <2>2. k + 1 \in 0..(WorkerCount - 1)
    BY <1>6, PoolAssumption
  <2>3. \A w \in Worker : worker'[w].pc # "none" <=> w <= k + 1
    BY <1>1, <1>3, <1>4 DEF WorkerBecomes, Worker
  <2> QED BY <1>3, <1>4, <2>1, <2>2, <2>3 DEF CreatedInOrder
<1> QED BY <1>5, <1>6

\* An index of the ring, and the distance of two of them.
LEMMA RingIndex ==
  ASSUME NEW a \in 0..(2 * MaxPending - 1)
  PROVE  a % MaxPending = IF a < MaxPending THEN a ELSE a - MaxPending
<1>1. MaxPending \in Nat \ {0}
  BY PoolAssumption
<1>2. CASE a < MaxPending
  BY <1>1, <1>2
<1>3. CASE a >= MaxPending
  <2>1. a - MaxPending \in 0..(MaxPending - 1) /\ a = 1 * MaxPending + (a - MaxPending)
    BY <1>1, <1>3
  <2> QED BY <1>1, <1>3, <2>1
<1> QED BY <1>1, <1>2, <1>3

LEMMA RingSteps ==
  ASSUME NEW h \in Slot, NEW a \in 0..(MaxPending - 1)
  PROVE  /\ h % MaxPending = h
         /\ (h + a) % MaxPending \in Slot
         /\ (((h + 1) % MaxPending) + a) % MaxPending = (h + (a + 1)) % MaxPending
         /\ (((h + a) % MaxPending) + 1) % MaxPending = (h + (a + 1)) % MaxPending
         /\ \A b \in 0..(MaxPending - 1) :
               (h + a) % MaxPending = (h + b) % MaxPending => a = b
<1>0. MaxPending \in Nat \ {0} /\ h \in Nat /\ h < MaxPending /\ a \in Nat /\ a < MaxPending
  BY PoolAssumption DEF Slot
<1> DEFINE at(i) == IF i < MaxPending THEN i ELSE i - MaxPending
<1>1. \A i \in 0..(2 * MaxPending - 1) : i % MaxPending = at(i) /\ at(i) \in Slot
  BY <1>0, RingIndex DEF Slot
<1>2. /\ (h + a) % MaxPending = at(h + a)
      /\ (h + 1) % MaxPending = at(h + 1)
      /\ (h + (a + 1)) % MaxPending = at(h + (a + 1))
      /\ h % MaxPending = h
  BY <1>0, <1>1, SMTT(30)
<1>3. (at(h + 1) + a) % MaxPending = at(at(h + 1) + a)
  BY <1>0, <1>1
<1>4. (at(h + a) + 1) % MaxPending = at(at(h + a) + 1)
  BY <1>0, <1>1
<1>5. at(at(h + 1) + a) = at(h + (a + 1)) /\ at(at(h + a) + 1) = at(h + (a + 1))
  BY <1>0
<1>6. \A b \in 0..(MaxPending - 1) : (h + a) % MaxPending = (h + b) % MaxPending => a = b
  <2> TAKE b \in 0..(MaxPending - 1)
  <2>1. (h + b) % MaxPending = at(h + b)
    BY <1>0, <1>1
  <2> QED BY <1>0, <1>2, <2>1
<1>7. at(h + a) \in Slot
  BY <1>0, <1>1
<1> QED BY <1>2, <1>3, <1>4, <1>5, <1>6, <1>7

\* The pool starts with no worker, no job and an owner that creates it.
LEMMA PoolStarts == Init => PoolInv
<1> SUFFICES ASSUME Init PROVE PoolInv
  OBVIOUS
<1>1. WorkerCount \in Nat \ {0} /\ MaxPending \in Nat \ {0} /\ MaxCloses \in Nat /\ Owner \in Closer
  BY PoolAssumption
<1>2. TypeOK
  <2>1. close \in [Closer -> CloseCall]
    BY <1>1 DEF Init, CloseCall, ClosePc, Result
  <2>2. worker \in [Worker -> [pc : WorkerPc, seen : State, job : Job \cup {NoJob}]]
    BY DEF Init, WorkerPc, State
  <2>3. accepted \in Seq(Job) /\ Len(accepted) = 0
    BY DEF Init
  <2> QED BY <1>1, <2>1, <2>2, <2>3 DEF Init, TypeOK, Slot, State, SubmitPc
<1>3. CreatedInOrder
  <2>1. 0 \in 0..(WorkerCount - 1)
    BY <1>1
  <2>2. \A w \in Worker : worker[w].pc = "none" /\ ~(w <= 0)
    BY <1>1 DEF Init, Worker
  <2> QED BY <2>1, <2>2 DEF CreatedInOrder
<1>4. Held /\ Employed /\ QueueCounted /\ JobsWereTaken
  BY <1>1 DEF Init, Held, Employed, QueueCounted, JobsWereTaken, Worker
<1>7. LeftCounts
  BY <1>1 DEF Init, LeftCounts
<1>8. QueueInRing
  BY <1>1 DEF Init, QueueInRing
<1>5. Busy = {}
  BY DEF Init, Busy
<1>6. BusyCounted
  BY <1>5, FS_EmptySet DEF Init, BusyCounted
<1> QED BY <1>2, <1>3, <1>4, <1>6, <1>7, <1>8 DEF PoolInv

\* A worker that takes a job takes the oldest one.
LEMMA NextJob ==
  ASSUME PoolInv, count > 0
  PROVE  slots[head] = accepted[taken + 1] /\ taken + 1 \in 1..Len(accepted) /\ slots[head] \in Job
<1>1. /\ MaxPending \in Nat \ {0} /\ count \in 0..MaxPending /\ head \in Slot
      /\ taken \in 0..Len(accepted) /\ accepted \in Seq(Job)
  BY PoolAssumption DEF PoolInv, TypeOK
<1>2. 0 \in 0..(MaxPending - 1) /\ head + 1 - 1 = head /\ 1 \in 1..count
  BY <1>1 DEF Slot
<1>3. (head + 1 - 1) % MaxPending = head
  BY <1>1, <1>2, RingSteps
<1> QED BY <1>1, <1>2, <1>3 DEF PoolInv, QueueCounted, QueueInRing

\* Steps of a worker.
LEMMA WorkerKeepsPool ==
  ASSUME PoolInv, NEW w \in Worker, WorkerStep(w)
  PROVE  PoolInv'
<1> USE DEF PoolInv
<1>0. /\ worker \in [Worker -> WorkerType] /\ WorkerCount \in Nat /\ 0 \notin Worker
      /\ MaxPending \in Nat \ {0} /\ NoJob \notin Job
      /\ active \in 0..WorkerCount /\ permits \in Nat /\ count \in 0..MaxPending
      /\ head \in Slot /\ taken \in 0..Len(accepted) /\ accepted \in Seq(Job)
  BY PoolAssumption DEF TypeOK, WorkerType, Worker
\* What a step of the worker keeps, by where it leads.
<1>1. ASSUME NEW p, NEW s, NEW j, WorkerBecomes(w, p, s, j),
             worker[w].pc # "none", p # "none", close' = close
      PROVE  CreatedInOrder' /\ LeftCounts'
  BY <1>1 DEF WorkerBecomes, CreatedInOrder, LeftCounts
<1>2. ASSUME NEW p, NEW s, NEW j, WorkerBecomes(w, p, s, j)
      PROVE  Busy' = IF p \in {"run", "complete", "leave"} THEN Busy \cup {w} ELSE Busy \ {w}
  BY <1>2 DEF WorkerBecomes, Busy
<1>3. ASSUME NEW p, NEW s, WorkerBecomes(w, p, s, worker[w].job), active' = active,
             UNCHANGED <<accepted, taken>>,
             worker[w].pc \in {"run", "complete", "leave"} <=> p \in {"run", "complete", "leave"}
      PROVE  BusyCounted' /\ Employed' /\ JobsWereTaken'
  <2>1. Busy' = Busy
    BY <1>2, <1>3 DEF Busy
  <2>2. Employed'
    BY <1>3 DEF Employed, WorkerBecomes
  <2>3. JobsWereTaken'
    BY <1>3 DEF JobsWereTaken, WorkerBecomes
  <2> QED BY <1>3, <2>1, <2>2, <2>3 DEF BusyCounted
<1>4. ASSUME NEW p, NEW s, NEW j, WorkerBecomes(w, p, s, j), mutex' = mutex,
             worker[w].pc # "inspect", p # "inspect"
      PROVE  Held'
  BY <1>4 DEF WorkerBecomes, Held
<1>5. ASSUME NEW p, NEW s, NEW j, WorkerBecomes(w, p, s, j), mutex' = 0,
             worker[w].pc = "inspect", p # "inspect"
      PROVE  Held'
  BY <1>0, <1>5 DEF WorkerBecomes, Held
<1>6. ASSUME NEW p, NEW s, NEW j, WorkerBecomes(w, p, s, j), permits' \in Nat,
             mutex' \in Worker \cup {0}, completed' \in [Job -> {0, 1}],
             finished' \in SUBSET Job,
             UNCHANGED <<life, state, active, ring, submit, close, closes, joins, accepted, taken>>
      PROVE  TypeOK' /\ QueueCounted' /\ QueueInRing'
  BY <1>6 DEF TypeOK, WorkerBecomes, WorkerType, ring, QueueCounted, QueueInRing
<1>7. CASE WorkerGate(w)
  <2>1. WorkerBecomes(w, "lock", worker[w].seen, worker[w].job)
    BY <1>7, WorkerRecords
  <2>2. permits' \in Nat
    BY <1>0, <1>7 DEF WorkerGate
  <2> QED BY <1>1, <1>3, <1>4, <1>6, <1>7, <2>1, <2>2 DEF WorkerGate, TypeOK, history
<1>8. CASE WorkerLock(w)
  <2>1. WorkerBecomes(w, "inspect", state, worker[w].job)
    BY <1>8, WorkerRecords
  <2>2. Held'
    BY <1>0, <1>8, <2>1 DEF WorkerLock, Held, WorkerBecomes
  <2> QED BY <1>1, <1>3, <1>6, <1>8, <2>1, <2>2 DEF WorkerLock, TypeOK, history
<1>9. CASE WorkerLeaves(w)
  <2>1. WorkerBecomes(w, IF worker[w].seen = "running" THEN "gate" ELSE "exit",
                      worker[w].seen, worker[w].job)
    BY <1>9, WorkerRecords
  <2> QED BY <1>1, <1>3, <1>5, <1>6, <1>9, <2>1 DEF WorkerLeaves, TypeOK, history
<1>10. CASE WorkerTakes(w)
  <2>1. WorkerBecomes(w, "run", worker[w].seen, slots[head])
    BY <1>10, WorkerRecords
  <2>2. w \notin Busy
    BY <1>10 DEF WorkerTakes, Busy
  <2>3. Busy' = Busy \cup {w}
    BY <1>2, <2>1
  <2>4. active' = Cardinality(Busy') /\ active' \in 0..WorkerCount
    <3>1. Busy \in SUBSET Worker /\ Busy' \in SUBSET Worker
      BY <2>3 DEF Busy
    <3>2. Cardinality(Busy') = Cardinality(Busy) + 1 /\ Cardinality(Busy') \in 0..WorkerCount
      BY <2>2, <2>3, <3>1, CountedWorkers
    <3> QED BY <1>10, <3>2 DEF WorkerTakes, BusyCounted
  <2>5. /\ count > 0 /\ count' = count - 1 /\ taken' = taken + 1 /\ accepted' = accepted
        /\ head' = (head + 1) % MaxPending /\ tail' = tail /\ slots' = slots
    BY <1>10 DEF WorkerTakes
  <2>6. QueueCounted' /\ count' \in 0..MaxPending /\ taken' \in 0..Len(accepted)
    BY <1>0, <2>5 DEF QueueCounted
  <2>7. head' \in Slot
    BY <1>0, <2>5 DEF Slot
  <2>8. TypeOK'
    BY <1>0, <1>10, <2>1, <2>4, <2>5, <2>6, <2>7
       DEF TypeOK, WorkerTakes, WorkerBecomes, WorkerType
  <2>9. slots[head] = accepted[taken + 1] /\ slots[head] \in Job
    BY <2>5, NextJob
  <2>10. QueueInRing'
    <3>1. \A k \in 0..(MaxPending - 1) :
             (((head + 1) % MaxPending) + k) % MaxPending = (head + (k + 1)) % MaxPending
      BY <1>0, RingSteps
    <3>2. tail = (head' + (count - 1)) % MaxPending
      <4>1. count - 1 \in 0..(MaxPending - 1) /\ head + ((count - 1) + 1) = head + count
        BY <1>0, <2>5 DEF Slot
      <4> QED BY <2>5, <3>1, <4>1 DEF QueueInRing
    <3>3. ASSUME NEW k \in 1..(count - 1)
          PROVE  slots[(head' + k - 1) % MaxPending] = accepted[taken + 1 + k]
      <4>1. k - 1 \in 0..(MaxPending - 1) /\ k + 1 \in 1..count
            /\ head + ((k - 1) + 1) = head + (k + 1) - 1 /\ head' + k - 1 = head' + (k - 1)
            /\ taken + (k + 1) = taken + 1 + k
        BY <1>0, <2>5, <2>7 DEF Slot
      <4>2. (head' + k - 1) % MaxPending = (head + (k + 1) - 1) % MaxPending
        BY <2>5, <3>1, <4>1
      <4> QED BY <4>1, <4>2 DEF QueueInRing
    <3> QED BY <2>5, <3>2, <3>3 DEF QueueInRing
  <2>11. Employed'
    BY <1>0, <2>1, <2>9 DEF Employed, WorkerBecomes
  <2>12. JobsWereTaken'
    <3>1. taken + 1 \in 1..taken' /\ \A k \in 1..taken : k \in 1..taken'
      BY <1>0, <2>5
    <3> QED BY <2>1, <2>5, <2>9, <3>1 DEF JobsWereTaken, WorkerBecomes
  <2> QED BY <1>1, <1>5, <1>10, <2>1, <2>4, <2>6, <2>8, <2>10, <2>11, <2>12
          DEF WorkerTakes, BusyCounted
<1>11. CASE WorkerRuns(w)
  <2>1. WorkerBecomes(w, "complete", worker[w].seen, worker[w].job)
    BY <1>11, WorkerRecords
  <2>2. finished' \in SUBSET Job
    BY <1>0, <1>11 DEF WorkerRuns, Employed, TypeOK, WorkerType
  <2> QED BY <1>1, <1>3, <1>4, <1>6, <1>11, <2>1, <2>2 DEF WorkerRuns, TypeOK
<1>12. CASE WorkerCompletes(w)
  <2>1. WorkerBecomes(w, "leave", worker[w].seen, worker[w].job)
    BY <1>12, WorkerRecords
  <2> QED BY <1>1, <1>3, <1>4, <1>6, <1>12, <2>1 DEF WorkerCompletes, TypeOK, history
<1>13. CASE WorkerNotActive(w)
  <2>1. WorkerBecomes(w, "check", worker[w].seen, NoJob)
    BY <1>13, WorkerRecords
  <2>2. w \in Busy
    BY <1>13 DEF WorkerNotActive, Busy
  <2>3. Busy' = Busy \ {w}
    BY <1>2, <2>1
  <2>4. active' = Cardinality(Busy') /\ active' \in 0..WorkerCount
    <3>1. Busy \in SUBSET Worker /\ Busy' \in SUBSET Worker
      BY <2>3 DEF Busy
    <3>2. Cardinality(Busy') = Cardinality(Busy) - 1 /\ Cardinality(Busy') \in 0..WorkerCount
      BY <2>2, <2>3, <3>1, CountedWorkers
    <3> QED BY <1>13, <3>2 DEF WorkerNotActive, BusyCounted
  <2>5. TypeOK' /\ QueueCounted' /\ QueueInRing'
    BY <1>13, <2>1, <2>4 DEF TypeOK, WorkerNotActive, WorkerBecomes, WorkerType, ring, history,
                             QueueCounted, QueueInRing
  <2>6. Employed' /\ JobsWereTaken'
    BY <1>13, <2>1 DEF Employed, JobsWereTaken, WorkerNotActive, WorkerBecomes, history
  <2> QED BY <1>1, <1>4, <1>13, <2>1, <2>4, <2>5, <2>6 DEF WorkerNotActive, BusyCounted
<1>14. CASE WorkerChecks(w)
  <2>1. WorkerBecomes(w, IF state = "drain" THEN "signal" ELSE "gate", worker[w].seen, worker[w].job)
    BY <1>14, WorkerRecords
  <2> QED BY <1>1, <1>3, <1>4, <1>6, <1>14, <2>1 DEF WorkerChecks, TypeOK, history
<1>15. CASE WorkerSignals(w)
  <2>1. WorkerBecomes(w, "gate", worker[w].seen, worker[w].job)
    BY <1>15, WorkerRecords
  <2>2. permits' \in Nat
    BY <1>0, <1>15 DEF WorkerSignals
  <2> QED BY <1>1, <1>3, <1>4, <1>6, <1>15, <2>1, <2>2 DEF WorkerSignals, TypeOK, history
<1> QED BY <1>7, <1>8, <1>9, <1>10, <1>11, <1>12, <1>13, <1>14, <1>15 DEF WorkerStep

\* Steps of a call of submit.
LEMMA SubmitKeepsPool ==
  ASSUME PoolInv, NEW j \in Job, SubmitBegin(j) \/ SubmitStep(j)
  PROVE  PoolInv'
<1> USE DEF PoolInv
<1>0. /\ MaxPending \in Nat \ {0} /\ count \in 0..MaxPending /\ permits \in Nat
      /\ head \in Slot /\ tail \in Slot /\ taken \in 0..Len(accepted) /\ accepted \in Seq(Job)
      /\ slots \in [Slot -> Job \cup {NoJob}]
  BY PoolAssumption DEF TypeOK
<1>1. /\ UNCHANGED <<worker, close, mutex, active, life, state, closes, joins, taken, finished>>
      /\ head' = head
  BY DEF SubmitBegin, SubmitStep, SubmitFull, SubmitEnqueue, SubmitSignal, ring, history
<1>2. CreatedInOrder' /\ Held' /\ LeftCounts' /\ Busy' = Busy /\ Employed'
  BY <1>1 DEF CreatedInOrder, Held, LeftCounts, Busy, Employed
<1>3. BusyCounted'
  BY <1>1, <1>2 DEF BusyCounted
<1>4. CASE SubmitEnqueue(j)
  <2>1. /\ slots' = [slots EXCEPT ![tail] = j] /\ tail' = (tail + 1) % MaxPending
        /\ count' = count + 1 /\ count < MaxPending /\ accepted' = Append(accepted, j)
    BY <1>4 DEF SubmitEnqueue
  <2>2. /\ accepted' \in Seq(Job) /\ Len(accepted') = Len(accepted) + 1
        /\ \A k \in 1..Len(accepted) : accepted'[k] = accepted[k]
        /\ accepted'[Len(accepted) + 1] = j
    BY <1>0, <2>1
  <2>3. QueueCounted' /\ count' \in 0..MaxPending /\ taken' \in 0..Len(accepted')
    BY <1>0, <1>1, <2>1, <2>2 DEF QueueCounted
  <2>4. tail' \in Slot /\ slots' \in [Slot -> Job \cup {NoJob}]
    BY <1>0, <2>1 DEF Slot
  <2>5. TypeOK'
    BY <1>1, <1>4, <2>2, <2>3, <2>4 DEF TypeOK, SubmitEnqueue, SubmitPc
  <2>6. QueueInRing'
    <3>1. count \in 0..(MaxPending - 1) /\ tail = (head + count) % MaxPending
      BY <1>0, <2>1 DEF QueueInRing
    <3>2. tail' = (head + (count + 1)) % MaxPending
      BY <1>0, <2>1, <3>1, RingSteps
    <3>3. ASSUME NEW k \in 1..count
          PROVE  slots'[(head + k - 1) % MaxPending] = accepted'[taken + k]
      <4>1. k - 1 \in 0..(MaxPending - 1) /\ head + k - 1 = head + (k - 1) /\ k - 1 # count
        BY <1>0, <2>1 DEF Slot
      <4>2. (head + k - 1) % MaxPending \in Slot /\ (head + k - 1) % MaxPending # tail
        BY <1>0, <3>1, <4>1, RingSteps
      <4>3. taken + k \in 1..Len(accepted)
        BY <1>0 DEF QueueCounted
      <4>4. slots'[(head + k - 1) % MaxPending] = slots[(head + k - 1) % MaxPending]
        BY <1>0, <2>1, <4>2
      <4> QED BY <2>2, <4>3, <4>4 DEF QueueInRing
    <3>4. slots'[(head + (count + 1) - 1) % MaxPending] = accepted'[taken + (count + 1)]
      <4>1. head + (count + 1) - 1 = head + count /\ taken + (count + 1) = Len(accepted) + 1
        BY <1>0 DEF QueueCounted, Slot
      <4>2. slots'[tail] = j
        BY <1>0, <2>1
      <4> QED BY <2>2, <3>1, <4>1, <4>2
    <3>5. \A k \in 1..(count + 1) : k \in 1..count \/ k = count + 1
      BY <1>0
    <3> QED BY <1>1, <2>1, <3>2, <3>3, <3>4, <3>5 DEF QueueInRing
  <2>7. JobsWereTaken'
    <3>1. \A k \in 1..taken : accepted'[k] = accepted[k]
      BY <1>0, <2>2
    <3> QED BY <1>1, <3>1 DEF JobsWereTaken
  <2> QED BY <1>2, <1>3, <2>3, <2>5, <2>6, <2>7
<1>5. CASE ~SubmitEnqueue(j)
  <2>1. UNCHANGED <<slots, tail, count, accepted>>
    BY <1>5 DEF SubmitBegin, SubmitStep, SubmitFull, SubmitSignal, ring, history
  <2>2. /\ permits' \in Nat /\ submit' \in [Job -> SubmitPc]
        /\ completed' \in [Job -> {0, 1}]
    BY <1>0, <1>5 DEF SubmitBegin, SubmitStep, SubmitFull, SubmitSignal, TypeOK, SubmitPc
  <2>3. TypeOK'
    BY <1>1, <2>1, <2>2 DEF TypeOK
  <2>4. QueueCounted' /\ QueueInRing' /\ JobsWereTaken'
    BY <1>1, <2>1 DEF QueueCounted, QueueInRing, JobsWereTaken
  <2> QED BY <1>2, <1>3, <2>3, <2>4
<1> QED BY <1>4, <1>5

\* Steps that create, close and destroy the pool.
OwnerMoves  == UndoWake \/ UndoDestroy \/ DestroyFails \/ DestroyPool
CloserSteps == \/ CreateFails \/ OwnerMoves \/ CallDestroy
               \/ \E c \in Closer : CloseDrain(c) \/ CloseAbort(c) \/ CloseStep(c) \/ CloseTimesOut(c)

\* They leave the workers, their joins, the queue and the submits alone.
LEMMA ClosersKeep ==
  ASSUME CloserSteps
  PROVE  UNCHANGED <<active, slots, head, tail, count, mutex, worker, submit, completed,
                     joins, accepted, taken, finished>>
BY DEF CloserSteps, CreateFails, OwnerMoves, CallDestroy, CloseDrain, CloseAbort, CloseStep,
       CloseTimesOut, UndoWake, UndoDestroy, DestroyFails, DestroyPool, CloseStore, CloseWake, CloseReadQueue,
       CloseReadActive, CloseSleeps, CloseFinal, ring, history

\* What a closing step keeps, by where it leads the closer.
LEMMA CloserTypes ==
  ASSUME PoolInv, NEW c \in Closer, NEW p, NEW mode, NEW left, NEW result, NEW owed,
         CloserBecomes(c, p, mode, left, result, owed), p # "create",
         p \in {"undoWake", "wake", "final"} => left > 0,
         UNCHANGED <<active, slots, head, tail, count, mutex, worker, submit, completed,
                     joins, accepted, taken, finished>>,
         life' \in {"absent", "ready", "gone"}, state' \in State, permits' \in Nat,
         closes' \in 0..MaxCloses
  PROVE  PoolInv'
<1>1. close' \in [Closer -> CloseCall]
  BY DEF CloserBecomes
<1>2. TypeOK'
  BY <1>1 DEF PoolInv, TypeOK
<1>3. CreatedInOrder' /\ LeftCounts'
  BY PoolAssumption DEF PoolInv, CreatedInOrder, LeftCounts, CloserBecomes
<1>4. /\ Held' /\ Busy' = Busy /\ Employed' /\ QueueCounted' /\ QueueInRing'
      /\ JobsWereTaken'
  BY DEF PoolInv, Held, Busy, Employed, QueueCounted, QueueInRing, JobsWereTaken
<1>5. BusyCounted'
  BY <1>4 DEF PoolInv, BusyCounted
<1> QED BY <1>2, <1>3, <1>4, <1>5 DEF PoolInv

LEMMA ClosersKeepPool == ASSUME PoolInv, CloserSteps PROVE PoolInv'
<1>0. /\ TypeOK /\ WorkerCount \in Nat \ {0} /\ permits \in Nat /\ Owner \in Closer
      /\ closes \in 0..MaxCloses /\ MaxCloses \in Nat /\ life \in {"absent", "ready", "gone"}
      /\ state \in State
  BY PoolAssumption DEF PoolInv, TypeOK
<1>1. UNCHANGED <<active, slots, head, tail, count, mutex, worker, submit, completed,
                  joins, accepted, taken, finished>>
  BY ClosersKeep
<1>2. permits + 1 \in Nat
  BY <1>0
<1>3. CASE CreateFails
  <2>1. CloserMoves(Owner, "undoWake") /\ close[Owner].left = WorkerCount
    BY <1>0, <1>3, CloserRecords DEF PoolInv, LeftCounts, CreateFails
  <2> QED BY <1>0, <1>1, <1>3, <2>1, CloserTypes DEF CreateFails, CloserMoves, State
<1>4. CASE UndoWake
  <2>1. close[Owner].left > 0 /\ close[Owner].left \in Nat
    BY <1>0, <1>4 DEF PoolInv, LeftCounts, UndoWake, TypeOK, CloseCall
  <2>2. CloserBecomes(Owner, IF close[Owner].left = 1 THEN "undoJoin" ELSE "undoWake",
                      close[Owner].mode, close[Owner].left - 1, close[Owner].result,
                      close[Owner].owed)
    BY <1>0, <1>4, <2>1, CloserRecords
  <2> QED BY <1>0, <1>1, <1>2, <1>4, <2>1, <2>2, CloserTypes DEF UndoWake
<1>5. CASE UndoDestroy
  <2>1. CloserMoves(Owner, "failed")
    BY <1>0, <1>5, CloserRecords
  <2> QED BY <1>0, <1>1, <1>5, <2>1, CloserTypes DEF UndoDestroy, CloserMoves
<1>6. CASE DestroyFails \/ DestroyPool
  <2>1. PICK p \in {"idle", "destroyed"}, result \in {"NoError", "Irrecoverable"} :
           CloserBecomes(Owner, p, close[Owner].mode, close[Owner].left, result, close[Owner].owed)
    BY <1>0, <1>6, CloserRecords
  <2>2. life' \in {life, "gone"} /\ UNCHANGED <<state, permits, closes>>
    BY <1>6 DEF DestroyFails, DestroyPool
  <2>3. p \notin {"create", "undoWake", "wake", "final"}
    OBVIOUS
  <2> QED BY <1>0, <1>1, <2>1, <2>2, <2>3, CloserTypes
<1>7. CASE CallDestroy
  <2>1. CloserBecomes(Owner, "store", "abort", close[Owner].left, "none", close[Owner].owed)
    BY <1>0, <1>7, CloserRecords
  <2>2. closes' \in 0..MaxCloses
    BY <1>0, <1>7 DEF CallDestroy
  <2> QED BY <1>0, <1>1, <1>7, <2>1, <2>2, CloserTypes DEF CallDestroy
<1>8. ASSUME NEW c \in Closer, CloseDrain(c) \/ CloseAbort(c)
      PROVE  PoolInv'
  <2>1. /\ CloseDrain(c) =>
             CloserBecomes(c, IF state = "abort" THEN "idle" ELSE "store", "drain",
                           close[c].left, IF state = "abort" THEN "InvalidState" ELSE "none",
                           close[c].owed)
        /\ CloseAbort(c) => CloserBecomes(c, "store", "abort", close[c].left, "none", close[c].owed)
    BY <1>0, CloserRecords
  <2>2. closes' \in 0..MaxCloses
    <3>1. closes' = closes + 1 /\ closes < MaxCloses
      BY <1>8, Zenon DEF CloseDrain, CloseAbort, MayClose
    <3> QED BY <1>0, <3>1
  <2>3. UNCHANGED <<life, state, permits>>
    BY <1>8 DEF CloseDrain, CloseAbort
  <2> QED BY <1>0, <1>1, <1>8, <2>1, <2>2, <2>3, CloserTypes
<1>9. ASSUME NEW c \in Closer, CloseStep(c) \/ CloseTimesOut(c)
      PROVE  PoolInv'
  <2>0. close[c].left \in 0..WorkerCount /\ close[c].mode \in State
        /\ (close[c].pc \in {"wake", "final"} => close[c].left > 0)
    BY <1>0 DEF TypeOK, CloseCall, PoolInv, LeftCounts, State
  <2>1. CASE CloseStore(c)
    <3>1. CloserBecomes(c, "wake", close[c].mode, WorkerCount, close[c].result, ToSet(accepted))
      BY <1>0, <2>1, CloserRecords
    <3> QED BY <1>0, <1>1, <2>0, <2>1, <3>1, CloserTypes DEF CloseStore
  <2>2. CASE CloseWake(c)
    <3>1. CloserBecomes(c, IF close[c].left > 1 THEN "wake"
                           ELSE IF close[c].mode = "drain" THEN "queued" ELSE "active",
                        close[c].mode, close[c].left - 1, close[c].result, close[c].owed)
      BY <1>0, <2>0, <2>2, CloserRecords DEF CloseWake
    <3>2. close[c].left > 1 => close[c].left - 1 > 0
      BY <2>0
    <3> QED BY <1>0, <1>1, <1>2, <2>2, <3>1, <3>2, CloserTypes DEF CloseWake
  <2>3. CASE CloseReadQueue(c)
    <3>1. CloserMoves(c, IF count = 0 THEN "active" ELSE "sleep")
      BY <1>0, <2>3, CloserRecords
    <3> QED BY <1>0, <1>1, <2>3, <3>1, CloserTypes DEF CloseReadQueue, CloserMoves
  <2>4. CASE CloseReadActive(c)
    <3>1. CloserBecomes(c, IF active = 0 THEN "final" ELSE "sleep", close[c].mode,
                        WorkerCount, close[c].result, close[c].owed)
      BY <1>0, <2>4, CloserRecords
    <3>2. WorkerCount > 0
      BY <1>0
    <3> QED BY <1>0, <1>1, <2>4, <3>1, <3>2, CloserTypes DEF CloseReadActive
  <2>5. CASE CloseSleeps(c)
    <3>1. CloserMoves(c, IF close[c].mode = "drain" THEN "queued" ELSE "active")
      BY <1>0, <2>5, CloserRecords
    <3> QED BY <1>0, <1>1, <2>5, <3>1, CloserTypes DEF CloseSleeps, CloserMoves
  <2>6. CASE CloseFinal(c)
    <3>1. CloserBecomes(c, IF close[c].left > 1 THEN "final"
                           ELSE IF close[c].destroys THEN "join" ELSE "idle",
                        close[c].mode,
                        IF close[c].left > 1 THEN close[c].left - 1 ELSE close[c].left,
                        IF close[c].left > 1 \/ close[c].destroys THEN close[c].result
                        ELSE "NoError", close[c].owed)
      BY <1>0, <2>6, CloserRecords
    <3>2. close[c].left > 1 => close[c].left - 1 > 0
      BY <2>0
    <3> QED BY <1>0, <1>1, <1>2, <2>6, <3>1, <3>2, CloserTypes DEF CloseFinal
  <2>7. CASE CloseTimesOut(c)
    <3>1. CloserBecomes(c, "idle", close[c].mode, close[c].left, "Timeout", close[c].owed)
      BY <1>0, <2>7, CloserRecords
    <3> QED BY <1>0, <1>1, <2>7, <3>1, CloserTypes DEF CloseTimesOut
  <2> QED BY <1>9, <2>1, <2>2, <2>3, <2>4, <2>5, <2>6, <2>7 DEF CloseStep
<1> QED BY <1>3, <1>4, <1>5, <1>6, <1>7, <1>8, <1>9 DEF CloserSteps, OwnerMoves

\* Starting a worker.
LEMMA CreateKeepsPool == ASSUME PoolInv, CreateWorker PROVE PoolInv'
<1>0. TypeOK /\ 0 \notin Worker /\ Owner \in Closer
  BY PoolAssumption DEF PoolInv, Worker
<1>1. PICK w \in Worker : /\ worker[w].pc = "none"
                          /\ WorkerBecomes(w, "gate", worker[w].seen, worker[w].job)
  BY <1>0, CreateRecords DEF PoolInv
<1>2. CreatedInOrder' /\ (close' = close \/ CloserMoves(Owner, "idle"))
  BY <1>0, CreateRecords DEF PoolInv
<1>3. UNCHANGED <<state, active, slots, head, tail, count, mutex, permits, submit, completed,
                  closes, joins, accepted, taken, finished>>
  BY DEF CreateWorker, ring, history
<1>4. life' \in {"absent", "ready", "gone"}
  BY <1>0 DEF CreateWorker, TypeOK
<1>5. close' \in [Closer -> CloseCall] /\ LeftCounts'
  BY <1>0, <1>2 DEF CloserMoves, CloserBecomes, TypeOK, LeftCounts, PoolInv
<1>6. TypeOK'
  BY <1>1, <1>3, <1>4, <1>5 DEF PoolInv, TypeOK, WorkerBecomes, WorkerType
<1>7. Held' /\ Busy' = Busy /\ Employed' /\ JobsWereTaken'
  BY <1>1, <1>3 DEF PoolInv, Held, Busy, Employed, JobsWereTaken, WorkerBecomes
<1>8. BusyCounted' /\ QueueCounted' /\ QueueInRing'
  BY <1>3, <1>7 DEF PoolInv, BusyCounted, QueueCounted, QueueInRing
<1> QED BY <1>2, <1>5, <1>6, <1>7, <1>8 DEF PoolInv

\* A join leaves everything but its result alone, as does a step that leaves the pool alone.
Untouched == UNCHANGED <<life, state, active, slots, head, tail, count, mutex, permits, worker,
                         submit, completed, close, closes, accepted, taken, finished>>
JoinStep  == UNCHANGED vars \/ \E w \in Worker : JoinWorker(w) \/ JoinFails(w)

LEMMA JoinsTouchNothing == JoinStep => Untouched
BY DEF JoinStep, JoinWorker, JoinFails, JoinReturns, Untouched, vars, ring, history

\* The steps of Next by who takes them.
LEMMA Actors ==
  ASSUME [Next]_vars
  PROVE  \/ CreateWorker \/ CloserSteps \/ JoinStep
         \/ \E w \in Worker : WorkerStep(w)
         \/ \E j \in Job : SubmitBegin(j) \/ SubmitStep(j)
BY DEF Next, OwnerStep, OwnerMoves, CloserSteps, JoinStep

LEMMA PoolHolds == Spec => []PoolInv
<1>1. PoolInv /\ JoinStep => PoolInv'
  <2> SUFFICES ASSUME PoolInv, JoinStep PROVE PoolInv'
    OBVIOUS
  <2>1. joins' \in [Worker -> {"none", "OK", "FAILURE"}]
    BY DEF PoolInv, TypeOK, JoinStep, JoinWorker, JoinFails, JoinReturns, vars
  <2> QED BY <2>1, JoinsTouchNothing
          DEF Untouched, PoolInv, TypeOK, CreatedInOrder, Held, LeftCounts, Busy, BusyCounted,
              Employed, QueueCounted, QueueInRing, JobsWereTaken
<1>2. PoolInv /\ [Next]_vars => PoolInv'
  BY <1>1, Actors, WorkerKeepsPool, SubmitKeepsPool, ClosersKeepPool, CreateKeepsPool
<1> QED BY <1>2, PoolStarts, PTL DEF Spec

\* The variables of the pool stay in their ranges: no count passes the number of workers,
\* the capacity of the ring or zero, and no index leaves the ring.
THEOREM TypeCorrect == Spec => []TypeOK
<1>1. PoolInv => TypeOK
  BY DEF PoolInv
<1> QED BY <1>1, PoolHolds, PTL

\* The ring buffer is a first-in first-out queue of the accepted jobs that nobody took.
THEOREM TheQueueIsFifo == Spec => []QueueIsFifo
<1>1. PoolInv => QueueIsFifo
  <2> SUFFICES ASSUME PoolInv PROVE QueueIsFifo
    OBVIOUS
  <2>1. ASSUME NEW w \in Worker, worker[w].job # NoJob
        PROVE  worker[w].job \in ToSet(SubSeq(accepted, 1, taken))
    <3>1. PICK k \in 1..taken : worker[w].job = accepted[k]
      BY <2>1 DEF PoolInv, JobsWereTaken
    <3>2. accepted \in Seq(Job) /\ taken \in 0..Len(accepted)
      BY DEF PoolInv, TypeOK
    <3>3. k \in DOMAIN SubSeq(accepted, 1, taken) /\ SubSeq(accepted, 1, taken)[k] = accepted[k]
      BY <3>2
    <3> QED BY <3>1, <3>3 DEF ToSet
  <2> QED BY <2>1 DEF PoolInv, QueueCounted, QueueInRing, QueueIsFifo
<1> QED BY <1>1, PoolHolds, PTL

-----------------------------------------------------------------------------
(* The end of the pool                                                     *)

\* A worker whose join succeeded is over, and so is everybody in a pool that is gone but those
\* whose join failed; no join is called there any more.
Gone == /\ \A w \in Worker : joins[w] = "OK" => worker[w].pc = "exit"
        /\ close[Owner].pc = "destroyed" => joins[WorkerCount] = "OK"
        /\ life = "gone" =>
             /\ close[Owner].pc \in {"failed", "destroyed"}
             /\ \A w \in Worker : worker[w].pc \in {"none", "exit"} \/ joins[w] = "FAILURE"

LEMMA GoneStays == PoolInv /\ Gone /\ [Next]_vars => Gone'
<1> SUFFICES ASSUME PoolInv, Gone, [Next]_vars PROVE Gone'
  OBVIOUS
<1>0. /\ TypeOK /\ Owner \in Closer /\ WorkerCount \in Worker
      /\ joins \in [Worker -> {"none", "OK", "FAILURE"}]
  BY PoolAssumption DEF PoolInv, TypeOK, Worker
<1>1. CASE CreateWorker
  <2>1. PICK w \in Worker : /\ worker[w].pc = "none"
                            /\ WorkerBecomes(w, "gate", worker[w].seen, worker[w].job)
    BY <1>0, <1>1, CreateRecords DEF PoolInv
  <2>2. /\ close[Owner].pc = "create" /\ joins' = joins
        /\ close'[Owner].pc \in {"create", "idle"} /\ life' \in {life, "ready"}
    BY <1>0, <1>1, CreateRecords DEF CreateWorker, CloserMoves, CloserBecomes, PoolInv
  <2> QED BY <2>1, <2>2 DEF WorkerBecomes, Gone
<1>2. ASSUME NEW w \in Worker, WorkerStep(w) PROVE Gone'
  <2>1. worker[w].pc \notin {"none", "exit"} /\ UNCHANGED <<life, close, joins>>
    BY <1>2 DEF WorkerStep, WorkerGate, WorkerLock, WorkerLeaves, WorkerTakes, WorkerRuns,
                WorkerCompletes, WorkerNotActive, WorkerChecks, WorkerSignals
  <2>2. \A v \in Worker \ {w} : worker'[v] = worker[v]
    BY <1>0, <1>2, WorkerRecords DEF WorkerStep, WorkerBecomes
  <2> QED BY <2>1, <2>2 DEF Gone
<1>3. ASSUME NEW j \in Job, SubmitBegin(j) \/ SubmitStep(j) PROVE Gone'
  BY <1>3 DEF SubmitBegin, SubmitStep, SubmitFull, SubmitEnqueue, SubmitSignal, Gone
<1>4. CASE CloserSteps
  <2>0. worker' = worker /\ joins' = joins
    BY <1>4, ClosersKeep
  <2>1. CASE UndoDestroy
    <3>1. close'[Owner].pc = "failed"
      BY <1>0, <2>1, CloserRecords DEF CloserMoves, CloserBecomes
    <3>2. \A w \in Worker : worker[w].pc # "none" => joins[w] # "none"
      BY <2>1 DEF UndoDestroy, Created, Joined
    <3> QED BY <1>0, <2>0, <3>1, <3>2 DEF Gone
  <2>2. CASE DestroyPool
    <3>1. close'[Owner].pc = "destroyed"
      BY <1>0, <2>2, CloserRecords DEF CloserBecomes
    <3>2. joins[WorkerCount] = "OK" /\ \A w \in Worker : joins[w] # "none"
      BY <2>2 DEF DestroyPool, Joined
    <3> QED BY <1>0, <2>0, <3>1, <3>2 DEF Gone
  <2>3. CASE UndoWake \/ CreateFails \/ CallDestroy \/ DestroyFails
    <3>1. life' = life /\ close[Owner].pc \in {"undoWake", "create", "idle", "join"}
      BY <1>0, <2>3 DEF UndoWake, CreateFails, CallDestroy, DestroyFails
    <3>2. UndoWake => close[Owner].left > 0
      BY <1>0 DEF PoolInv, LeftCounts, UndoWake
    <3>3. close'[Owner].pc # "destroyed"
      BY <1>0, <2>3, <3>2, CloserRecords DEF CloserMoves, CloserBecomes
    <3> QED BY <2>0, <3>1, <3>3 DEF Gone
  <2>4. ASSUME NEW c \in Closer, CloseDrain(c) \/ CloseAbort(c) \/ CloseStep(c) \/ CloseTimesOut(c)
        PROVE  Gone'
    <3>1. life' = life /\ close[c].pc \notin {"failed", "destroyed"}
      BY <2>4 DEF CloseDrain, CloseAbort, MayClose, CloseStep, CloseTimesOut, CloseStore,
                  CloseWake, CloseReadQueue, CloseReadActive, CloseSleeps, CloseFinal
    <3>2. life = "gone" => c # Owner
      BY <3>1 DEF Gone
    <3>3. c # Owner => close'[Owner] = close[Owner]
      BY <1>0, <2>4, CloserRecords, SMTT(30) DEF CloserMoves, CloserBecomes, CloseStep, PoolInv,
           LeftCounts, CloseWake
    <3>4. c = Owner => close'[Owner].pc # "destroyed"
      BY <1>0, <2>4, CloserRecords DEF CloserMoves, CloserBecomes, CloseStep, PoolInv, LeftCounts,
           CloseWake
    <3> QED BY <2>0, <3>1, <3>2, <3>3, <3>4 DEF Gone
  <2> QED BY <1>4, <2>1, <2>2, <2>3, <2>4 DEF CloserSteps, OwnerMoves
<1>5. CASE JoinStep
  <2>1. CASE UNCHANGED vars
    BY <2>1 DEF vars, Gone
  <2>2. ASSUME NEW w \in Worker, JoinWorker(w) \/ JoinFails(w) PROVE Gone'
    <3>1. close[Owner].pc \in {"join", "undoJoin"} /\ UNCHANGED <<life, worker, close>>
      BY <2>2 DEF JoinWorker, JoinFails, JoinReturns
    <3>2. /\ \A v \in Worker \ {w} : joins'[v] = joins[v]
          /\ joins'[w] = "OK" => worker[w].pc = "exit"
      BY <1>0, <2>2 DEF JoinWorker, JoinFails, JoinReturns
    <3> QED BY <3>1, <3>2 DEF Gone
  <2> QED BY <1>5, <2>1, <2>2 DEF JoinStep
<1> QED BY <1>1, <1>2, <1>3, <1>4, <1>5, Actors

\* When the pool's gate and mutex are destroyed, no worker is left that uses them but those
\* whose join failed, and none of these is the last worker of a pool that was destroyed.
THEOREM NobodyOutlivesThePool == Spec => []NoWorkerOutlivesPool
<1>1. Init => Gone
  BY PoolAssumption DEF Init, Gone, Worker
<1>2. PoolInv /\ Gone => NoWorkerOutlivesPool
  <2> SUFFICES ASSUME PoolInv, Gone PROVE NoWorkerOutlivesPool
    OBVIOUS
  <2>1. WorkerCount \in Worker /\ mutex \in Worker \cup {0}
    BY PoolAssumption DEF PoolInv, TypeOK, Worker
  <2>2. mutex # 0 => worker[mutex].pc = "inspect"
    BY <2>1 DEF PoolInv, Held
  <2> QED BY <2>1, <2>2 DEF Gone, Lost, NoWorkerOutlivesPool
<1> QED BY <1>1, <1>2, GoneStays, PoolHolds, PTL DEF Spec

-----------------------------------------------------------------------------
(* Completions                                                             *)

\* No job is accepted twice, and those are accepted whose submit got past the queue.
AcceptedOnce == /\ \A a, b \in 1..Len(accepted) : accepted[a] = accepted[b] => a = b
                /\ \A j \in Job : submit[j] \in {"signal", "accepted"}
                                     <=> \E k \in 1..Len(accepted) : accepted[k] = j

\* A job has one worker at most, and is finished once its function returned.
OneWorkerEach == \A v, w \in Worker :
                    worker[v].job # NoJob /\ worker[v].job = worker[w].job => v = w
RunOnce       == /\ \A j \in finished : \E k \in 1..taken : accepted[k] = j
                 /\ \A w \in Worker : /\ worker[w].pc = "run" => worker[w].job \notin finished
                                      /\ worker[w].pc \in {"complete", "leave"} =>
                                             worker[w].job \in finished

\* A completion is reset before its job is accepted.
ResetFirst == \A j \in Job : submit[j] = "enqueue" => completed[j] = 0

\* CompletionIsExact, by positions of the queue.
Exact == \A k \in 1..Len(accepted) :
            completed[accepted[k]] = 1 <=>
                /\ accepted[k] \in finished
                /\ \A w \in Worker : ~(worker[w].job = accepted[k] /\ worker[w].pc = "complete")

JobInv == AcceptedOnce /\ OneWorkerEach /\ RunOnce /\ ResetFirst /\ Exact

LEMMA WorkerKeepsJobs ==
  ASSUME PoolInv, JobInv, NEW w \in Worker, WorkerStep(w)
  PROVE  JobInv'
<1> USE DEF JobInv
<1>0. /\ TypeOK /\ Employed /\ JobsWereTaken /\ NoJob \notin Job
      /\ accepted \in Seq(Job) /\ taken \in 0..Len(accepted)
      /\ worker \in [Worker -> WorkerType] /\ completed \in [Job -> {0, 1}]
  BY PoolAssumption DEF PoolInv, TypeOK, WorkerType
<1>1. accepted' = accepted /\ submit' = submit
  BY DEF WorkerStep, WorkerGate, WorkerLock, WorkerLeaves, WorkerTakes, WorkerRuns,
         WorkerCompletes, WorkerNotActive, WorkerChecks, WorkerSignals, history
<1>2. AcceptedOnce'
  BY <1>1 DEF AcceptedOnce
<1>3. ASSUME NEW p, NEW s, WorkerBecomes(w, p, s, worker[w].job),
             UNCHANGED <<completed, taken, finished>>,
             worker[w].pc \notin {"run", "complete", "leave"},
             p \notin {"run", "complete", "leave"}
      PROVE  JobInv'
  <2>1. OneWorkerEach' /\ RunOnce' /\ ResetFirst' /\ Exact'
    BY <1>1, <1>3 DEF WorkerBecomes, OneWorkerEach, RunOnce, ResetFirst, Exact
  <2> QED BY <1>2, <2>1
<1>4. CASE WorkerTakes(w)
  <2>1. WorkerBecomes(w, "run", worker[w].seen, slots[head])
    BY <1>0, <1>4, WorkerRecords
  <2>2. taken' = taken + 1 /\ UNCHANGED <<completed, finished>> /\ worker[w].pc = "inspect"
    BY <1>4 DEF WorkerTakes
  <2>3. slots[head] = accepted[taken + 1] /\ taken + 1 \in 1..Len(accepted)
    BY <1>4, NextJob DEF WorkerTakes
  <2>4. ~\E k \in 1..taken : accepted[k] = slots[head]
    BY <1>0, <2>3 DEF AcceptedOnce
  <2>5. slots[head] \notin finished /\ \A v \in Worker : worker[v].job # slots[head]
    BY <1>0, <2>3, <2>4 DEF RunOnce, JobsWereTaken
  <2>6. OneWorkerEach' /\ Exact'
    BY <1>1, <2>1, <2>2, <2>5 DEF WorkerBecomes, OneWorkerEach, Exact
  <2>7. \A k \in 1..taken : k \in 1..taken'
    BY <1>0, <2>2
  <2>8. RunOnce' /\ ResetFirst'
    BY <1>1, <2>1, <2>2, <2>5, <2>7 DEF WorkerBecomes, RunOnce, ResetFirst
  <2> QED BY <1>2, <2>6, <2>8
<1>5. CASE WorkerRuns(w)
  <2>1. WorkerBecomes(w, "complete", worker[w].seen, worker[w].job)
    BY <1>0, <1>5, WorkerRecords
  <2>2. /\ worker[w].pc = "run" /\ worker[w].job # NoJob /\ worker[w].job \notin finished
        /\ finished' = finished \cup {worker[w].job} /\ UNCHANGED <<completed, taken>>
    BY <1>0, <1>5 DEF WorkerRuns, Employed, RunOnce
  <2>3. OneWorkerEach' /\ ResetFirst'
    BY <1>1, <2>1, <2>2 DEF WorkerBecomes, OneWorkerEach, ResetFirst
  <2>4. \A v \in Worker \ {w} : worker[v].job # worker[w].job
    BY <2>2 DEF OneWorkerEach
  <2>5. RunOnce'
    <3>1. \A j \in finished' : \E k \in 1..taken : accepted[k] = j
      BY <1>0, <2>2 DEF RunOnce, JobsWereTaken
    <3>2. \A v \in Worker : /\ worker'[v].pc = "run" => worker'[v].job \notin finished'
                            /\ worker'[v].pc \in {"complete", "leave"} => worker'[v].job \in finished'
      BY <2>1, <2>2, <2>4 DEF WorkerBecomes, RunOnce
    <3> QED BY <1>1, <2>2, <3>1, <3>2 DEF RunOnce
  <2>6. Exact'
    BY <1>1, <2>1, <2>2 DEF WorkerBecomes, Exact
  <2> QED BY <1>2, <2>3, <2>5, <2>6
<1>6. CASE WorkerCompletes(w)
  <2>1. WorkerBecomes(w, "leave", worker[w].seen, worker[w].job)
    BY <1>0, <1>6, WorkerRecords
  <2>2. /\ worker[w].pc = "complete" /\ worker[w].job # NoJob /\ worker[w].job \in finished
        /\ worker[w].job \in Job
        /\ completed' = [completed EXCEPT ![worker[w].job] = 1]
        /\ UNCHANGED <<finished, taken>>
    BY <1>0, <1>6 DEF WorkerCompletes, Employed, RunOnce, history, WorkerType
  <2>3. OneWorkerEach' /\ RunOnce'
    BY <1>1, <2>1, <2>2 DEF WorkerBecomes, OneWorkerEach, RunOnce
  <2>4. \A v \in Worker \ {w} : worker[v].job # worker[w].job
    BY <2>2 DEF OneWorkerEach
  <2>5. completed'[worker[w].job] = 1
        /\ \A j \in Job : j # worker[w].job => completed'[j] = completed[j]
    BY <1>0, <2>2
  <2>6. Exact'
    <3> SUFFICES ASSUME NEW k \in 1..Len(accepted)
                 PROVE  completed'[accepted[k]] = 1 <=>
                          /\ accepted[k] \in finished
                          /\ \A v \in Worker : ~(worker'[v].job = accepted[k]
                                                   /\ worker'[v].pc = "complete")
      BY <1>1, <2>2 DEF Exact
    <3>1. accepted[k] \in Job
      BY <1>0
    <3>2. CASE accepted[k] = worker[w].job
      BY <2>1, <2>2, <2>4, <2>5, <3>2 DEF WorkerBecomes
    <3>3. CASE accepted[k] # worker[w].job
      BY <2>1, <2>5, <3>1, <3>3 DEF WorkerBecomes, Exact
    <3> QED BY <3>2, <3>3
  <2>7. ResetFirst'
    <3> SUFFICES ASSUME NEW j \in Job, submit[j] = "enqueue" PROVE completed'[j] = 0
      BY <1>1 DEF ResetFirst
    <3>1. j # worker[w].job
      <4>1. PICK k \in 1..taken : worker[w].job = accepted[k]
        BY <1>0, <2>2 DEF JobsWereTaken
      <4>2. k \in 1..Len(accepted)
        BY <1>0
      <4> QED BY <2>2, <4>1, <4>2 DEF AcceptedOnce
    <3> QED BY <2>5, <3>1 DEF ResetFirst
  <2> QED BY <1>2, <2>3, <2>6, <2>7
<1>7. CASE WorkerNotActive(w)
  <2>1. WorkerBecomes(w, "check", worker[w].seen, NoJob)
    BY <1>0, <1>7, WorkerRecords
  <2>2. worker[w].pc = "leave" /\ UNCHANGED <<completed, finished, taken>>
    BY <1>7 DEF WorkerNotActive, history
  <2>3. OneWorkerEach' /\ RunOnce' /\ ResetFirst'
    BY <1>1, <2>1, <2>2 DEF WorkerBecomes, OneWorkerEach, RunOnce, ResetFirst
  <2>4. Exact'
    BY <1>1, <2>1, <2>2 DEF WorkerBecomes, Exact
  <2> QED BY <1>2, <2>3, <2>4
<1>8. CASE WorkerGate(w) \/ WorkerLock(w) \/ WorkerLeaves(w) \/ WorkerChecks(w) \/ WorkerSignals(w)
  <2>1. \E p \in {"lock", "inspect", "gate", "exit", "signal"}, s \in State :
            WorkerBecomes(w, p, s, worker[w].job)
    <3>1. worker[w].seen \in State /\ state \in State
      BY <1>0 DEF TypeOK, WorkerType
    <3> QED BY <1>0, <1>8, <3>1, WorkerRecords
  <2>2. UNCHANGED <<completed, taken, finished>> /\ worker[w].pc \notin {"run", "complete", "leave"}
    BY <1>8 DEF WorkerGate, WorkerLock, WorkerLeaves, WorkerChecks, WorkerSignals, history
  <2> QED BY <1>3, <2>1, <2>2
<1> QED BY <1>4, <1>5, <1>6, <1>7, <1>8 DEF WorkerStep

LEMMA SubmitKeepsJobs ==
  ASSUME PoolInv, JobInv, NEW j \in Job, SubmitBegin(j) \/ SubmitStep(j)
  PROVE  JobInv'
<1> USE DEF JobInv
<1>0. /\ accepted \in Seq(Job) /\ taken \in 0..Len(accepted)
      /\ submit \in [Job -> SubmitPc] /\ completed \in [Job -> {0, 1}]
  BY DEF PoolInv, TypeOK
<1>1. UNCHANGED <<worker, taken, finished>>
  BY DEF SubmitBegin, SubmitStep, SubmitFull, SubmitEnqueue, SubmitSignal, history
<1>2. OneWorkerEach'
  BY <1>1 DEF OneWorkerEach
<1>3. CASE SubmitEnqueue(j)
  <2>1. /\ accepted' = Append(accepted, j) /\ submit[j] = "enqueue" /\ completed' = completed
        /\ submit' = [submit EXCEPT ![j] = "signal"]
    BY <1>3 DEF SubmitEnqueue
  <2>2. /\ Len(accepted') = Len(accepted) + 1 /\ Len(accepted) \in Nat
        /\ \A k \in 1..Len(accepted) : accepted'[k] = accepted[k]
        /\ accepted'[Len(accepted) + 1] = j
        /\ \A k \in 1..Len(accepted') : k \in 1..Len(accepted) \/ k = Len(accepted) + 1
        /\ Len(accepted) + 1 \in 1..Len(accepted')
        /\ \A k \in 1..Len(accepted) : k \in 1..Len(accepted')
    BY <1>0, <2>1
  <2>3. \A k \in 1..Len(accepted) : accepted[k] # j
    BY <2>1 DEF AcceptedOnce
  <2>4. \A k \in 1..taken : accepted[k] # j /\ accepted'[k] = accepted[k]
    BY <1>0, <2>2, <2>3
  <2>5. j \notin finished /\ completed[j] = 0 /\ completed[j] # 1
    BY <2>1, <2>4 DEF RunOnce, ResetFirst
  <2>6. AcceptedOnce'
    BY <1>0, <2>1, <2>2, <2>3 DEF AcceptedOnce
  <2>7. RunOnce' /\ ResetFirst'
    BY <1>0, <1>1, <2>1, <2>4 DEF RunOnce, ResetFirst
  <2>8. Exact'
    BY <1>1, <2>1, <2>2, <2>5 DEF Exact
  <2> QED BY <1>2, <2>6, <2>7, <2>8
<1>4. CASE ~SubmitEnqueue(j)
  <2>1. accepted' = accepted
    BY <1>4 DEF SubmitBegin, SubmitStep, SubmitFull, SubmitSignal, history
  <2>2. AcceptedOnce' /\ ResetFirst'
    BY <1>0, <1>4, <2>1 DEF SubmitBegin, SubmitStep, SubmitFull, SubmitSignal, AcceptedOnce,
                            ResetFirst
  <2>3. completed' = completed
        \/ (completed' = [completed EXCEPT ![j] = 0] /\ submit[j] \in {"new", "full"})
    BY <1>4 DEF SubmitBegin, SubmitStep, SubmitFull, SubmitSignal
  <2>4. \A k \in 1..Len(accepted) : completed'[accepted[k]] = completed[accepted[k]]
    BY <1>0, <2>3 DEF AcceptedOnce
  <2>5. RunOnce' /\ Exact'
    BY <1>1, <2>1, <2>4 DEF RunOnce, Exact
  <2> QED BY <1>2, <2>2, <2>5
<1> QED BY <1>3, <1>4

LEMMA JobsHold == Spec => [](PoolInv /\ JobInv)
<1>1. Init => JobInv
  BY DEF Init, JobInv, AcceptedOnce, OneWorkerEach, RunOnce, ResetFirst, Exact
<1>2. PoolInv /\ JobInv /\ CloserSteps => JobInv'
  BY ClosersKeep DEF JobInv, AcceptedOnce, OneWorkerEach, RunOnce, ResetFirst, Exact
<1>3. PoolInv /\ JobInv /\ JoinStep => JobInv'
  BY JoinsTouchNothing DEF Untouched, JobInv, AcceptedOnce, OneWorkerEach, RunOnce, ResetFirst, Exact
<1>4. PoolInv /\ JobInv /\ CreateWorker => JobInv'
  <2> SUFFICES ASSUME PoolInv, JobInv, CreateWorker PROVE JobInv'
    OBVIOUS
  <2>1. PICK w \in Worker : /\ worker[w].pc = "none"
                            /\ WorkerBecomes(w, "gate", worker[w].seen, worker[w].job)
    BY CreateRecords DEF PoolInv
  <2>2. UNCHANGED <<submit, completed, accepted, taken, finished>>
    BY DEF CreateWorker, history
  <2> QED BY <2>1, <2>2 DEF JobInv, AcceptedOnce, OneWorkerEach, RunOnce, ResetFirst, Exact,
             WorkerBecomes
<1>5. PoolInv /\ JobInv /\ [Next]_vars => JobInv'
  BY <1>2, <1>3, <1>4, Actors, WorkerKeepsJobs, SubmitKeepsJobs
<1> QED BY <1>1, <1>5, PoolHolds, PTL DEF Spec

\* A submitted job's completion reads 1 exactly from the moment the worker that ran it
\* moves on.
THEOREM CompletionsAreExact == Spec => []CompletionIsExact
<1>1. PoolInv /\ JobInv => CompletionIsExact
  BY DEF PoolInv, TypeOK, JobInv, Exact, CompletionIsExact, ToSet
<1> QED BY <1>1, JobsHold, PTL

-----------------------------------------------------------------------------
(* Drain                                                                   *)

\* A job that was taken is finished, or a worker is running it.
Settled == \A k \in 1..taken :
              \/ accepted[k] \in finished
              \/ \E w \in Worker : worker[w].pc = "run" /\ worker[w].job = accepted[k]

\* How far a close has come with the jobs it owes: a drain that found the queue empty owes
\* taken jobs only, and one that then found no active worker owes none.
Owing == \A c \in Closer :
    /\ \A j \in close[c].owed : \E k \in 1..Len(accepted) : accepted[k] = j
    /\ close[c].pc \in {"store", "wake", "queued", "active", "sleep", "final", "join"} =>
           close[c].result # "NoError"
    /\ close[c].mode = "drain" =>
         /\ close[c].pc = "active" => \A j \in close[c].owed : \E k \in 1..taken : accepted[k] = j
         /\ close[c].pc \in {"final", "join"} \/ close[c].result = "NoError" =>
                close[c].owed \subseteq finished

DrainInv == Settled /\ Owing

LEMMA WorkerKeepsDrain ==
  ASSUME PoolInv, DrainInv, NEW w \in Worker, WorkerStep(w)
  PROVE  DrainInv'
<1>0. TypeOK /\ taken \in 0..Len(accepted) /\ Len(accepted) \in Nat
  BY DEF PoolInv, TypeOK
<1>1. close' = close /\ accepted' = accepted
  BY DEF WorkerStep, WorkerGate, WorkerLock, WorkerLeaves, WorkerTakes, WorkerRuns,
         WorkerCompletes, WorkerNotActive, WorkerChecks, WorkerSignals, history
<1>2. /\ WorkerTakes(w) \/ taken' = taken
      /\ WorkerTakes(w) => taken' = taken + 1
      /\ WorkerRuns(w) \/ finished' = finished
      /\ WorkerRuns(w) => finished' = finished \cup {worker[w].job} /\ worker[w].pc = "run"
      /\ WorkerRuns(w) \/ worker[w].pc # "run"
  BY DEF WorkerStep, WorkerGate, WorkerLock, WorkerLeaves, WorkerTakes, WorkerRuns,
         WorkerCompletes, WorkerNotActive, WorkerChecks, WorkerSignals, history
<1>3. \A k \in 1..taken : k \in 1..taken'
  BY <1>0, <1>2
<1>4. Owing'
  BY <1>1, <1>2, <1>3 DEF DrainInv, Owing
<1>5. \A v \in Worker \ {w} : worker'[v] = worker[v]
  BY <1>0, WorkerRecords DEF WorkerStep, WorkerBecomes
<1>6. Settled'
  <2>1. CASE WorkerTakes(w)
    <3>1. worker'[w].pc = "run" /\ worker'[w].job = accepted[taken + 1]
      BY <1>0, <2>1, WorkerRecords, NextJob DEF WorkerTakes, WorkerBecomes
    <3>2. \A k \in 1..taken' : k \in 1..taken \/ k = taken + 1
      BY <1>0, <1>2, <2>1
    <3>3. worker[w].pc = "inspect" /\ finished' = finished
      BY <2>1 DEF WorkerTakes
    <3> QED BY <1>1, <1>5, <3>1, <3>2, <3>3 DEF DrainInv, Settled
  <2>2. CASE WorkerRuns(w)
    <3>1. taken' = taken
      BY <2>2 DEF WorkerRuns
    <3> QED BY <1>1, <1>2, <1>5, <2>2, <3>1 DEF DrainInv, Settled
  <2>3. CASE ~WorkerTakes(w) /\ ~WorkerRuns(w)
    BY <1>1, <1>2, <1>5, <2>3 DEF DrainInv, Settled
  <2> QED BY <2>1, <2>2, <2>3
<1> QED BY <1>4, <1>6 DEF DrainInv

LEMMA SubmitKeepsDrain ==
  ASSUME PoolInv, DrainInv, NEW j \in Job, SubmitBegin(j) \/ SubmitStep(j)
  PROVE  DrainInv'
<1>0. taken \in 0..Len(accepted) /\ accepted \in Seq(Job)
  BY DEF PoolInv, TypeOK
<1>1. UNCHANGED <<worker, close, taken, finished>>
  BY DEF SubmitBegin, SubmitStep, SubmitFull, SubmitEnqueue, SubmitSignal, history
<1>2. accepted' = accepted \/ accepted' = Append(accepted, j)
  BY DEF SubmitBegin, SubmitStep, SubmitFull, SubmitEnqueue, SubmitSignal, history
<1>3. \A k \in 1..Len(accepted) : accepted'[k] = accepted[k] /\ k \in 1..Len(accepted')
  BY <1>0, <1>2
<1>4. \A k \in 1..taken : accepted'[k] = accepted[k]
  BY <1>0, <1>3
<1> QED BY <1>1, <1>3, <1>4 DEF DrainInv, Settled, Owing

LEMMA ClosersKeepDrain == ASSUME PoolInv, DrainInv, CloserSteps PROVE DrainInv'
<1>0. TypeOK /\ Owner \in Closer /\ Len(accepted) \in Nat
  BY PoolAssumption DEF PoolInv, TypeOK
<1>1. UNCHANGED <<worker, accepted, taken, finished, active, count>>
  BY ClosersKeep
<1>2. Settled'
  BY <1>1 DEF DrainInv, Settled
\* It is enough to look at the closer that moves.
<1> DEFINE Owes(p, mode, result, owed) ==
      /\ \A j \in owed : \E k \in 1..Len(accepted) : accepted[k] = j
      /\ p \in {"store", "wake", "queued", "active", "sleep", "final", "join"} =>
             result # "NoError"
      /\ mode = "drain" =>
           /\ p = "active" => \A j \in owed : \E k \in 1..taken : accepted[k] = j
           /\ p \in {"final", "join"} \/ result = "NoError" => owed \subseteq finished
<1>3. \A c \in Closer : Owes(close[c].pc, close[c].mode, close[c].result, close[c].owed)
  BY DEF DrainInv, Owing
<1>4. ASSUME NEW c \in Closer, NEW p, NEW mode, NEW left, NEW result, NEW owed,
             CloserBecomes(c, p, mode, left, result, owed), Owes(p, mode, result, owed)
      PROVE  DrainInv'
  BY <1>1, <1>2, <1>3, <1>4 DEF CloserBecomes, DrainInv, Owing
<1>5. CASE CreateFails \/ UndoWake \/ UndoDestroy
  <2> DEFINE call == close[Owner]
  <2>1. CreateFails => CloserMoves(Owner, "undoWake")
    BY <1>0, CloserRecords
  <2>2. UndoDestroy => CloserMoves(Owner, "failed")
    BY <1>0, CloserRecords
  <2>3. UndoWake => CloserBecomes(Owner, IF call.left = 1 THEN "undoJoin" ELSE "undoWake",
                                  call.mode, call.left - 1, call.result, call.owed)
    BY <1>0, CloserRecords DEF PoolInv, LeftCounts, UndoWake
  <2> QED BY <1>0, <1>3, <1>4, <1>5, <2>1, <2>2, <2>3 DEF CloserMoves
<1>6. CASE DestroyFails \/ DestroyPool
  <2>1. PICK p \in {"idle", "destroyed"}, result \in {"NoError", "Irrecoverable"} :
           CloserBecomes(Owner, p, close[Owner].mode, close[Owner].left, result, close[Owner].owed)
    BY <1>0, <1>6, CloserRecords
  <2>2. close[Owner].pc = "join"
    BY <1>6 DEF DestroyFails, DestroyPool
  <2> QED BY <1>0, <1>3, <1>4, <2>1, <2>2
<1>7. CASE CallDestroy
  <2>1. CloserBecomes(Owner, "store", "abort", close[Owner].left, "none", close[Owner].owed)
    BY <1>0, <1>7, CloserRecords
  <2> QED BY <1>0, <1>3, <1>4, <2>1
<1>8. ASSUME NEW c \in Closer, CloseDrain(c) PROVE DrainInv'
  <2>1. CloserBecomes(c, IF state = "abort" THEN "idle" ELSE "store", "drain", close[c].left,
                      IF state = "abort" THEN "InvalidState" ELSE "none", close[c].owed)
    BY <1>0, <1>8, CloserRecords
  <2> QED BY <1>3, <1>4, <2>1
<1>9. ASSUME NEW c \in Closer, CloseAbort(c) PROVE DrainInv'
  <2>1. CloserBecomes(c, "store", "abort", close[c].left, "none", close[c].owed)
    BY <1>0, <1>9, CloserRecords
  <2> QED BY <1>3, <1>4, <2>1
<1>10. ASSUME NEW c \in Closer, CloseTimesOut(c) PROVE DrainInv'
  <2>1. CloserBecomes(c, "idle", close[c].mode, close[c].left, "Timeout", close[c].owed)
    BY <1>0, <1>10, CloserRecords
  <2> QED BY <1>3, <1>4, <2>1
<1>11. ASSUME NEW c \in Closer, CloseStore(c) PROVE DrainInv'
  <2>1. CloserBecomes(c, "wake", close[c].mode, WorkerCount, close[c].result, ToSet(accepted))
    BY <1>0, <1>11, CloserRecords
  <2>2. \A j \in ToSet(accepted) : \E k \in 1..Len(accepted) : accepted[k] = j
    BY DEF ToSet, PoolInv, TypeOK
  <2>3. close[c].result # "NoError"
    BY <1>3, <1>11 DEF CloseStore
  <2> QED BY <1>4, <2>1, <2>2, <2>3
<1>12. ASSUME NEW c \in Closer, CloseWake(c) PROVE DrainInv'
  <2>1. CloserBecomes(c, IF close[c].left > 1 THEN "wake"
                         ELSE IF close[c].mode = "drain" THEN "queued" ELSE "active",
                      close[c].mode, close[c].left - 1, close[c].result, close[c].owed)
    BY <1>0, <1>12, CloserRecords DEF CloseWake, PoolInv, LeftCounts
  <2>2. close[c].pc = "wake"
    BY <1>12 DEF CloseWake
  <2> QED BY <1>3, <1>4, <2>1, <2>2
<1>13. ASSUME NEW c \in Closer, CloseReadQueue(c) PROVE DrainInv'
  <2>1. CloserMoves(c, IF count = 0 THEN "active" ELSE "sleep") /\ close[c].pc = "queued"
    BY <1>0, <1>13, CloserRecords DEF CloseReadQueue
  <2>2. count = 0 => taken = Len(accepted)
    BY <1>0 DEF PoolInv, QueueCounted, TypeOK
  <2> QED BY <1>3, <1>4, <2>1, <2>2 DEF CloserMoves
<1>14. ASSUME NEW c \in Closer, CloseReadActive(c) PROVE DrainInv'
  <2>1. /\ CloserBecomes(c, IF active = 0 THEN "final" ELSE "sleep", close[c].mode,
                         WorkerCount, close[c].result, close[c].owed)
        /\ close[c].pc = "active"
    BY <1>0, <1>14, CloserRecords DEF CloseReadActive
  <2>2. active = 0 => Busy = {}
    <3>1. IsFiniteSet(Worker) /\ Busy \subseteq Worker
      BY FS_Interval, PoolAssumption DEF Busy, Worker
    <3>2. IsFiniteSet(Busy)
      BY <3>1, FS_Subset
    <3> QED BY <3>2, FS_EmptySet DEF PoolInv, BusyCounted
  <2>3. active = 0 => \A k \in 1..taken : accepted[k] \in finished
    BY <2>2 DEF DrainInv, Settled, Busy
  <2> QED BY <1>3, <1>4, <2>1, <2>3
<1>15. ASSUME NEW c \in Closer, CloseSleeps(c) PROVE DrainInv'
  <2>1. /\ CloserMoves(c, IF close[c].mode = "drain" THEN "queued" ELSE "active")
        /\ close[c].pc = "sleep"
    BY <1>0, <1>15, CloserRecords DEF CloseSleeps
  <2> QED BY <1>3, <1>4, <2>1 DEF CloserMoves
<1>16. ASSUME NEW c \in Closer, CloseFinal(c) PROVE DrainInv'
  <2>1. /\ CloserBecomes(c, IF close[c].left > 1 THEN "final"
                            ELSE IF close[c].destroys THEN "join" ELSE "idle",
                         close[c].mode,
                         IF close[c].left > 1 THEN close[c].left - 1 ELSE close[c].left,
                         IF close[c].left > 1 \/ close[c].destroys THEN close[c].result
                         ELSE "NoError", close[c].owed)
        /\ close[c].pc = "final"
    BY <1>0, <1>16, CloserRecords DEF CloseFinal
  <2> QED BY <1>3, <1>4, <2>1
<1> QED BY <1>5, <1>6, <1>7, <1>8, <1>9, <1>10, <1>11, <1>12, <1>13, <1>14, <1>15, <1>16
        DEF CloserSteps, OwnerMoves, CloseStep

\* When close(Drain) returns NoError, every job accepted before it stored the state has run.
THEOREM DrainsFinishWhatTheyOwe == Spec => []DrainFinishesOwed
<1>1. Init => DrainInv
  BY DEF Init, DrainInv, Settled, Owing
<1>2. PoolInv /\ DrainInv /\ JoinStep => DrainInv'
  BY JoinsTouchNothing DEF Untouched, DrainInv, Settled, Owing
<1>3. PoolInv /\ DrainInv /\ CreateWorker => DrainInv'
  <2> SUFFICES ASSUME PoolInv, DrainInv, CreateWorker PROVE DrainInv'
    OBVIOUS
  <2>1. PICK w \in Worker : /\ worker[w].pc = "none"
                            /\ WorkerBecomes(w, "gate", worker[w].seen, worker[w].job)
    BY CreateRecords DEF PoolInv
  <2>2. UNCHANGED <<accepted, taken, finished>> /\ (close' = close \/ CloserMoves(Owner, "idle"))
        /\ close[Owner].pc = "create"
    BY CreateRecords DEF CreateWorker, history, PoolInv
  <2>3. Settled'
    BY <2>1, <2>2 DEF DrainInv, Settled, WorkerBecomes
  <2>4. Owing'
    BY <2>2, PoolAssumption DEF DrainInv, Owing, CloserMoves, CloserBecomes
  <2> QED BY <2>3, <2>4 DEF DrainInv
<1>4. PoolInv /\ DrainInv /\ [Next]_vars => DrainInv'
  BY <1>2, <1>3, Actors, WorkerKeepsDrain, SubmitKeepsDrain, ClosersKeepDrain
<1>5. DrainInv => DrainFinishesOwed
  BY DEF DrainInv, Owing, DrainFinishesOwed
<1> QED BY <1>1, <1>4, <1>5, PoolHolds, PTL DEF Spec
-----------------------------------------------------------------------------
(* The pool implements JobQueue                                            *)

\* No job is being submitted when the pool is created or destroyed, and only a destroy joins
\* the workers of a pool that was ready.
Quiet == /\ Submitting => life = "ready" /\ ~close[Owner].destroys
         /\ close[Owner].pc = "join" => close[Owner].destroys
         /\ close[Owner].pc \in {"create", "undoWake", "undoJoin"} => life = "absent"

\* What the owner's steps do to what Quiet says of its call.
LEMMA OwnersCall ==
  ASSUME PoolInv, CloserSteps
  PROVE  /\ close'[Owner].pc = "join" =>
                \/ close'[Owner].destroys
                \/ close'[Owner] = close[Owner]
         /\ close'[Owner].pc \in {"create", "undoWake", "undoJoin"} =>
                close[Owner].pc \in {"create", "undoWake", "undoJoin"}
         /\ close'[Owner].destroys => close[Owner].destroys \/ CallDestroy
<1>0. /\ Owner \in Closer /\ close \in [Closer -> CloseCall] /\ TypeOK
      /\ DOMAIN close[Owner] = {"pc", "mode", "timed", "destroys", "left", "result", "owed"}
  BY PoolAssumption DEF PoolInv, TypeOK, CloseCall
<1>1. CASE CreateFails \/ UndoWake \/ UndoDestroy \/ CallDestroy
  BY <1>0, <1>1 DEF CreateFails, UndoWake, UndoDestroy, CallDestroy
<1>5. CASE DestroyFails
  <2>1. close'[Owner] = Returns(Owner, "Irrecoverable")
    BY <1>0, <1>5 DEF DestroyFails
  <2> QED BY <1>0, <2>1 DEF Returns
<1>6. CASE DestroyPool
  <2>1. PICK r \in {"NoError", "Irrecoverable"} :
           close' = [close EXCEPT ![Owner].pc = "destroyed", ![Owner].result = r]
    BY <1>6, Zenon DEF DestroyPool
  <2> QED BY <1>0, <2>1
<1>2. ASSUME NEW c \in Closer \ {Owner},
             CloseDrain(c) \/ CloseAbort(c) \/ CloseStep(c) \/ CloseTimesOut(c)
      PROVE  close'[Owner] = close[Owner]
  BY <1>0, <1>2 DEF CloseDrain, CloseAbort, CloseStep, CloseTimesOut, CloseStore, CloseWake,
     CloseReadQueue, CloseReadActive, CloseSleeps, CloseFinal
<1> DEFINE call == close[Owner]
           call2 == close'[Owner]
<1>3. CASE CloseDrain(Owner) \/ CloseAbort(Owner)
  <2>1. call2.pc \in {"idle", "store"}
    BY <1>0, <1>3, CloserRecords DEF CloserBecomes
  <2>2. ASSUME NEW p, NEW r, NEW m, NEW t,
               close' = [close EXCEPT ![Owner] = [call EXCEPT !.pc = p, !.result = r, !.mode = m,
                                                              !.timed = t]]
        PROVE  call2.destroys = call.destroys
    BY <1>0, <2>2
  <2>3. CloseDrain(Owner) => call2.destroys = call.destroys
    BY <2>2 DEF CloseDrain
  <2>4. CloseAbort(Owner) => call2.destroys = call.destroys
    BY <2>2 DEF CloseAbort
  <2> QED BY <1>3, <2>1, <2>3, <2>4
<1>4. CASE CloseStep(Owner) \/ CloseTimesOut(Owner)
  <2>1. CloseStore(Owner) => call2.destroys = call.destroys
    BY <1>0 DEF CloseStore
  <2>2. CloseWake(Owner) => call2.destroys = call.destroys
    BY <1>0 DEF CloseWake
  <2>3. CloseReadQueue(Owner) \/ CloseSleeps(Owner) => call2.destroys = call.destroys
    BY <1>0 DEF CloseReadQueue, CloseSleeps
  <2>4. CloseReadActive(Owner) => call2.destroys = call.destroys
    BY <1>0 DEF CloseReadActive
  <2>5. CloseTimesOut(Owner) => ~call2.destroys
    BY <1>0 DEF CloseTimesOut, Returns
  <2>6. CloseFinal(Owner) => /\ call2.destroys => call.destroys
                             /\ call2.pc = "join" => call2.destroys
    <3> SUFFICES ASSUME CloseFinal(Owner)
                 PROVE  (call2.destroys => call.destroys) /\ (call2.pc = "join" => call2.destroys)
      OBVIOUS
    <3>1. CASE call.left > 1
      BY <1>0, <3>1 DEF CloseFinal
    <3>2. CASE ~(call.left > 1) /\ call.destroys
      BY <1>0, <3>2 DEF CloseFinal
    <3>3. CASE ~(call.left > 1) /\ ~call.destroys
      BY <1>0, <3>3 DEF CloseFinal, Returns
    <3> QED BY <3>1, <3>2, <3>3
  <2>7. call2.pc \notin {"create", "undoWake", "undoJoin"}
        /\ (CloseFinal(Owner) \/ call2.pc # "join")
    BY <1>0, <1>4, CloserRecords DEF CloserMoves, CloserBecomes, CloseStep, PoolInv, LeftCounts,
       CloseWake
  <2> QED BY <1>4, <2>1, <2>2, <2>3, <2>4, <2>5, <2>6, <2>7 DEF CloseStep
<1> QED BY <1>1, <1>2, <1>3, <1>4, <1>5, <1>6 DEF CloserSteps, OwnerMoves

LEMMA QuietStays == PoolInv /\ Quiet /\ [Next]_vars => Quiet'
<1> SUFFICES ASSUME PoolInv, Quiet, [Next]_vars PROVE Quiet'
  OBVIOUS
<1>0. Owner \in Closer /\ close \in [Closer -> CloseCall] /\ submit \in [Job -> SubmitPc]
  BY PoolAssumption DEF PoolInv, TypeOK
<1>1. CASE CreateWorker
  <2>1. submit' = submit /\ life = "absent" /\ ~Submitting
    BY <1>1 DEF CreateWorker, Quiet
  <2>2. UNCHANGED <<life, close>> \/ close' = [close EXCEPT ![Owner].pc = "idle"]
    BY <1>1 DEF CreateWorker
  <2> QED BY <1>0, <2>1, <2>2 DEF Quiet, Submitting, CloseCall
<1>2. ASSUME NEW w \in Worker, WorkerStep(w) PROVE Quiet'
  BY <1>2 DEF WorkerStep, WorkerGate, WorkerLock, WorkerLeaves, WorkerTakes, WorkerRuns,
     WorkerCompletes, WorkerNotActive, WorkerChecks, WorkerSignals, Quiet, Submitting
<1>3. ASSUME NEW j \in Job, SubmitBegin(j) \/ SubmitStep(j) PROVE Quiet'
  <2>1. UNCHANGED <<life, close>> /\ (MaySubmit \/ Submitting)
    BY <1>3 DEF SubmitBegin, SubmitStep, SubmitFull, SubmitEnqueue, SubmitSignal, Submitting
  <2> QED BY <2>1 DEF Quiet, MaySubmit
<1>4. CASE CloserSteps
  <2>1. submit' = submit
    BY <1>4, ClosersKeep
  <2>2. life' = life \/ UndoDestroy \/ DestroyPool
    BY <1>4 DEF CloserSteps, CreateFails, OwnerMoves, DestroyFails, CallDestroy, CloseDrain,
       CloseAbort,
       CloseTimesOut, UndoWake, CloseStep, CloseStore, CloseWake, CloseReadQueue,
       CloseReadActive, CloseSleeps, CloseFinal
  <2>3. UndoDestroy \/ DestroyPool =>
            ~Submitting /\ close'[Owner].pc \in {"failed", "destroyed"}
    BY <1>0 DEF UndoDestroy, DestroyPool, Quiet, CloseCall
  <2>4. CallDestroy => ~Submitting
    BY DEF CallDestroy
  <2> QED BY <1>4, <2>1, <2>2, <2>3, <2>4, OwnersCall DEF Quiet, Submitting
<1>5. CASE JoinStep
  BY <1>5, JoinsTouchNothing DEF Untouched, Quiet, Submitting
<1> QED BY <1>1, <1>2, <1>3, <1>4, <1>5, Actors

\* What waits is the part of the queue that was accepted and not taken.
LEMMA WaitingJobs ==
  ASSUME PoolInv
  PROVE  /\ Waiting \in Seq(Job) /\ Len(Waiting) = count
         /\ \A k \in 1..count : Waiting[k] = accepted[taken + k]
         /\ count > 0 => /\ Waiting # <<>> /\ Head(Waiting) = slots[head]
                         /\ Tail(Waiting) = SubSeq(accepted, taken + 2, Len(accepted))
<1>1. /\ accepted \in Seq(Job) /\ taken \in 0..Len(accepted) /\ count = Len(accepted) - taken
      /\ Len(accepted) \in Nat
  BY DEF PoolInv, TypeOK, QueueCounted
<1>2. /\ Waiting \in Seq(Job) /\ Len(Waiting) = count
      /\ \A k \in 1..count : Waiting[k] = accepted[taken + k]
  BY <1>1 DEF Waiting
<1>3. ASSUME count > 0
      PROVE  /\ Waiting # <<>> /\ Head(Waiting) = slots[head]
             /\ Tail(Waiting) = SubSeq(accepted, taken + 2, Len(accepted))
  <2>1. Waiting # <<>> /\ Head(Waiting) = slots[head]
    BY <1>1, <1>2, <1>3, NextJob
  <2>2. Tail(Waiting) = SubSeq(accepted, taken + 2, Len(accepted))
    BY <1>1, <1>2, <1>3, SMTT(30) DEF Waiting
  <2> QED BY <2>1, <2>2
<1> QED BY <1>2, <1>3
\* A job whose submit is not past the queue is neither waiting nor executed.
LEMMA NotYetAccepted ==
  ASSUME PoolInv, JobInv, NEW j \in Job, submit[j] \notin {"signal", "accepted"}
  PROVE  j \notin Promise!Accepted
<1>1. \A k \in 1..Len(accepted) : accepted[k] # j
  BY DEF JobInv, AcceptedOnce
<1>2. \A k \in 1..taken : k \in 1..Len(accepted)
  BY DEF PoolInv, TypeOK
<1>3. \A k \in 1..Len(Waiting) : Waiting[k] # j
  <2>1. taken \in 0..Len(accepted) /\ count = Len(accepted) - taken /\ Len(accepted) \in Nat
    BY DEF PoolInv, TypeOK, QueueCounted
  <2> QED BY <1>1, <2>1, WaitingJobs
<1>4. j \notin Executing
  <2>1. \A w \in Worker : worker[w].pc = "run" => \E k \in 1..taken : worker[w].job = accepted[k]
    BY DEF PoolInv, Employed, JobsWereTaken
  <2> QED BY <1>1, <1>2, <2>1 DEF Executing
<1>5. j \notin finished
  BY <1>1, <1>2 DEF JobInv, RunOnce
<1> QED BY <1>3, <1>4, <1>5 DEF Promise!Accepted

\* The jobs that execute, after a step of a worker.
LEMMA ExecutingJobs ==
  ASSUME PoolInv, JobInv, NEW w \in Worker
  PROVE  /\ WorkerTakes(w) => /\ Executing' = Executing \cup {slots[head]}
                              /\ Cardinality(Executing) < WorkerCount
         /\ WorkerRuns(w) => /\ worker[w].job \in Executing
                             /\ Executing' = Executing \ {worker[w].job}
         /\ WorkerStep(w) /\ ~WorkerTakes(w) /\ ~WorkerRuns(w) => Executing' = Executing
<1>0. TypeOK
  BY DEF PoolInv
<1>1. ASSUME WorkerTakes(w)
      PROVE  Executing' = Executing \cup {slots[head]} /\ Cardinality(Executing) < WorkerCount
  <2>1. WorkerBecomes(w, "run", worker[w].seen, slots[head]) /\ worker[w].pc = "inspect"
    BY <1>0, <1>1, WorkerRecords DEF WorkerTakes
  <2>2. Executing' = Executing \cup {slots[head]}
    BY <2>1 DEF Executing, WorkerBecomes
  <2> DEFINE Runners == {v \in Worker : worker[v].pc = "run"}
  <2>3. Runners \in SUBSET Worker /\ w \notin Runners /\ IsFiniteSet(Runners)
    <3>1. IsFiniteSet(Worker)
      BY FS_Interval, PoolAssumption DEF Worker
    <3> QED BY <2>1, <3>1, FS_Subset
  <2>4. Cardinality(Runners) < WorkerCount
    <3>1. Cardinality(Runners \cup {w}) = Cardinality(Runners) + 1
      BY <2>3, CountedWorkers
    <3>2. Cardinality(Runners \cup {w}) \in 0..WorkerCount /\ Cardinality(Runners) \in 0..WorkerCount
      <4>1. Runners \cup {w} \in SUBSET Worker
        BY <2>3
      <4> QED BY <2>3, <4>1, CountedWorkers
    <3> QED BY <3>1, <3>2, PoolAssumption
  <2>5. IsFiniteSet(Executing) /\ Cardinality(Executing) <= Cardinality(Runners)
    <3> DEFINE job == [v \in Runners |-> worker[v].job]
    <3>1. job \in Surjection(Runners, Executing)
      BY DEF Executing, Surjection
    <3> QED BY <2>3, <3>1, FS_Surjection
  <2>6. Cardinality(Executing) \in Nat /\ Cardinality(Runners) \in Nat /\ WorkerCount \in Nat
    BY <2>3, <2>5, FS_CardinalityType, PoolAssumption
  <2> QED BY <2>2, <2>4, <2>5, <2>6
<1>2. ASSUME WorkerRuns(w)
      PROVE  worker[w].job \in Executing /\ Executing' = Executing \ {worker[w].job}
  <2>1. WorkerBecomes(w, "complete", worker[w].seen, worker[w].job) /\ worker[w].pc = "run"
    BY <1>0, <1>2, WorkerRecords DEF WorkerRuns
  <2>2. \A v \in Worker \ {w} : worker[v].job # worker[w].job
    BY <2>1 DEF PoolInv, Employed, JobInv, OneWorkerEach
  <2> QED BY <2>1, <2>2 DEF Executing, WorkerBecomes
<1>3. ASSUME WorkerStep(w), ~WorkerTakes(w), ~WorkerRuns(w)
      PROVE  Executing' = Executing
  <2>1. worker[w].pc # "run" /\ \E p \in WorkerPc \ {"run"} : \E s, j : WorkerBecomes(w, p, s, j)
    <3>1. worker[w].pc # "run"
      BY <1>3 DEF WorkerStep, WorkerGate, WorkerLock, WorkerLeaves, WorkerCompletes,
         WorkerNotActive, WorkerChecks, WorkerSignals
    <3> QED BY <1>0, <1>3, <3>1, WorkerRecords DEF WorkerStep, WorkerPc
  <2> QED BY <2>1 DEF Executing, WorkerBecomes
<1> QED BY <1>1, <1>2, <1>3

\* A worker at the queue is the only one there, and an aborted pool gets no other that may begin.
LEMMA LateWorkers ==
  ASSUME PoolInv, Gone, NEW w \in Worker, WorkerStep(w)
  PROVE  /\ Phase # "gone" /\ Phase' = Phase
         /\ worker[w].pc = "inspect" => ~MayBegin'
         /\ worker[w].pc = "inspect" /\ worker[w].seen # "abort" /\ Phase = "abort" => MayBegin
         /\ worker[w].pc # "inspect" => MayBegin' = MayBegin
<1>0. TypeOK /\ 0 \notin Worker
  BY PoolAssumption DEF PoolInv, Worker
<1>1. UNCHANGED <<life, state, joins>> /\ worker[w].pc \notin {"none", "exit"}
  BY DEF WorkerStep, WorkerGate, WorkerLock, WorkerLeaves, WorkerTakes, WorkerRuns,
         WorkerCompletes, WorkerNotActive, WorkerChecks, WorkerSignals
<1>2. /\ ~(life = "gone" /\ Lost = {}) /\ Lost' = Lost
      /\ Phase = state /\ Phase' = Phase /\ Phase # "gone"
  BY <1>0, <1>1 DEF Gone, Phase, Lost, TypeOK, State
<1>3. ASSUME worker[w].pc = "inspect" PROVE ~MayBegin'
  <2>1. \A v \in Worker \ {w} : worker[v].pc # "inspect"
    BY <1>3 DEF PoolInv, Held
  <2>2. \E p \in {"run", "gate", "exit"} : \E s, j : WorkerBecomes(w, p, s, j)
    BY <1>0, <1>3, WorkerRecords DEF WorkerStep, WorkerGate, WorkerLock, WorkerRuns,
       WorkerCompletes, WorkerNotActive, WorkerChecks, WorkerSignals
  <2> QED BY <2>1, <2>2 DEF MayBegin, WorkerBecomes
<1>4. ASSUME worker[w].pc # "inspect" PROVE MayBegin' = MayBegin
  <2>1. CASE WorkerLock(w)
    <3>1. WorkerBecomes(w, "inspect", state, worker[w].job)
      BY <1>0, <2>1, WorkerRecords
    <3> QED BY <1>2, <1>4, <3>1 DEF MayBegin, WorkerBecomes
  <2>2. CASE ~WorkerLock(w)
    <3>1. \E p \in WorkerPc \ {"inspect"} : \E s, j : WorkerBecomes(w, p, s, j)
      BY <1>0, <1>4, <2>2, WorkerRecords DEF WorkerStep, WorkerLeaves, WorkerTakes, WorkerPc
    <3> QED BY <1>2, <1>4, <3>1 DEF MayBegin, WorkerBecomes
  <2> QED BY <2>1, <2>2
<1> QED BY <1>2, <1>3, <1>4 DEF MayBegin
\* Every step of a worker is a step of the queue, or nobody sees it.
LEMMA WorkersServeQueue ==
  ASSUME PoolInv, JobInv, Gone, NEW w \in Worker, WorkerStep(w)
  PROVE  [Promise!Next]_(Promise!queueVars)
<1>0. TypeOK /\ taken \in 0..Len(accepted) /\ Len(accepted) \in Nat
  BY DEF PoolInv, TypeOK
<1>1. Phase # "gone" /\ Phase' = Phase
  BY LateWorkers
<1>2. CASE WorkerTakes(w)
  <2>1. /\ worker[w].pc = "inspect" /\ worker[w].seen # "abort" /\ count > 0
        /\ taken' = taken + 1 /\ UNCHANGED <<accepted, finished, completed>>
    BY <1>2 DEF WorkerTakes
  <2>2. Waiting # <<>> /\ Head(Waiting) = slots[head] /\ Waiting' = Tail(Waiting)
    <3>1. taken + 1 + 1 = taken + 2
      BY <1>0
    <3> QED BY <2>1, <3>1, WaitingJobs DEF Waiting
  <2>3. ~MayBegin' /\ (Phase = "abort" => MayBegin)
    BY <2>1, LateWorkers
  <2>4. Executing' = Executing \cup {slots[head]} /\ Cardinality(Executing) < WorkerCount
    BY <1>2, ExecutingJobs
  <2>5. MayBegin' = FALSE
    BY <2>3 DEF MayBegin
  <2>6. Executing' = Executing \cup {Head(Waiting)} /\ UNCHANGED <<finished, completed>>
    BY <2>1, <2>2, <2>4
  <2>7. Promise!Cardinality(Executing) = Cardinality(Executing)
    BY Zenon DEF Promise!Cardinality, Cardinality
  <2>8. Promise!Begin
    BY <2>7, <1>1, <2>2, <2>3, <2>4, <2>5, <2>6, Zenon DEF Promise!Begin
  <2> QED BY <2>8 DEF Promise!Next
<1>3. CASE WorkerRuns(w)
  <2>1. worker[w].pc = "run" /\ worker[w].job \in Job
    BY <1>0, <1>3 DEF WorkerRuns, PoolInv, Employed, TypeOK
  <2>2. /\ finished' = finished \cup {worker[w].job} /\ UNCHANGED <<accepted, taken, completed>>
        /\ MayBegin' = MayBegin
    BY <1>3, <2>1, LateWorkers DEF WorkerRuns
  <2>3. worker[w].job \in Executing /\ Executing' = Executing \ {worker[w].job}
    BY <1>3, ExecutingJobs
  <2>4. Promise!Finish(worker[w].job)
    BY <1>1, <2>2, <2>3 DEF Promise!Finish, Waiting
  <2> QED BY <2>1, <2>4 DEF Promise!Next
<1>4. CASE WorkerCompletes(w)
  <2>1. worker[w].pc = "complete" /\ worker[w].job \in Job
    BY <1>0, <1>4 DEF WorkerCompletes, PoolInv, Employed, TypeOK
  <2>2. PICK k \in 1..Len(accepted) : worker[w].job = accepted[k]
    <3>1. \A k \in 1..taken : k \in 1..Len(accepted)
      BY <1>0
    <3> QED BY <2>1, <3>1 DEF PoolInv, JobsWereTaken, Employed
  <2>3. worker[w].job \in finished /\ completed[worker[w].job] = 0
    <3>1. worker[w].job \in finished /\ completed[worker[w].job] # 1
      BY <2>1, <2>2 DEF JobInv, RunOnce, Exact
    <3> QED BY <1>0, <2>1, <3>1 DEF TypeOK
  <2>4. /\ completed' = [completed EXCEPT ![worker[w].job] = 1]
        /\ UNCHANGED <<accepted, taken, finished>> /\ MayBegin' = MayBegin
    BY <1>4, <2>1, LateWorkers DEF WorkerCompletes, history
  <2>5. Executing' = Executing
    BY <1>4, ExecutingJobs DEF WorkerStep, WorkerCompletes, WorkerTakes, WorkerRuns
  <2>6. Promise!Complete(worker[w].job)
    BY <1>1, <2>3, <2>4, <2>5 DEF Promise!Complete, Waiting
  <2> QED BY <2>1, <2>6 DEF Promise!Next
<1>5. CASE ~WorkerTakes(w) /\ ~WorkerRuns(w) /\ ~WorkerCompletes(w)
  <2>1. UNCHANGED <<accepted, taken, finished, completed>>
    BY <1>5 DEF WorkerStep, WorkerGate, WorkerLock, WorkerLeaves, WorkerNotActive, WorkerChecks,
       WorkerSignals, history
  <2>2. Executing' = Executing /\ Waiting' = Waiting
    BY <1>5, <2>1, ExecutingJobs DEF Waiting
  <2>3. CASE MayBegin' = MayBegin
    BY <1>1, <2>1, <2>2, <2>3 DEF Promise!queueVars
  <2>4. CASE MayBegin' # MayBegin
    <3>1. MayBegin = TRUE /\ MayBegin' = FALSE
      BY <2>4, LateWorkers DEF MayBegin
    <3> QED BY <1>1, <2>1, <2>2, <3>1 DEF Promise!Next, Promise!BeginsNone
  <2> QED BY <2>3, <2>4
<1> QED BY <1>2, <1>3, <1>4, <1>5

\* A submit resets the completion and accepts the job; the queue sees nothing else of it.
LEMMA SubmitsFeedQueue ==
  ASSUME PoolInv, JobInv, Quiet, NEW j \in Job, SubmitBegin(j) \/ SubmitStep(j)
  PROVE  [Promise!Next]_(Promise!queueVars)
<1>0. /\ accepted \in Seq(Job) /\ taken \in 0..Len(accepted) /\ count = Len(accepted) - taken
      /\ Len(accepted) \in Nat
  BY DEF PoolInv, TypeOK, QueueCounted
<1>1. UNCHANGED <<life, state, worker, joins, taken, finished>>
  BY DEF SubmitBegin, SubmitStep, SubmitFull, SubmitEnqueue, SubmitSignal, history
<1>2. Phase' = Phase /\ MayBegin' = MayBegin /\ Executing' = Executing
  BY <1>1 DEF Phase, Lost, MayBegin, Executing
<1>3. Phase # "gone"
  BY DEF SubmitBegin, MaySubmit, SubmitStep, SubmitFull, SubmitEnqueue, SubmitSignal, Quiet,
         Submitting, Phase, PoolInv, TypeOK, State
<1>4. CASE SubmitBegin(j) /\ state = "running"
  <2>1. /\ submit[j] \in {"new", "full"} /\ completed' = [completed EXCEPT ![j] = 0]
        /\ accepted' = accepted /\ Phase = "running"
    BY <1>3, <1>4 DEF SubmitBegin, history, Phase
  <2>2. Promise!Reset(j)
    BY <1>1, <1>2, <2>1, NotYetAccepted DEF Promise!Reset, Waiting
  <2> QED BY <2>2 DEF Promise!Next
<1>5. CASE SubmitEnqueue(j)
  <2>1. /\ submit[j] = "enqueue" /\ count < MaxPending /\ completed' = completed
        /\ accepted' = Append(accepted, j)
    BY <1>5 DEF SubmitEnqueue
  <2>2. Waiting' = Append(Waiting, j)
    <3>1. Waiting \in Seq(Job) /\ Len(Waiting) = count
          /\ \A k \in 1..count : Waiting[k] = accepted[taken + k]
      BY WaitingJobs
    <3>2. accepted' \in Seq(Job) /\ Len(accepted') = Len(accepted) + 1
          /\ accepted'[Len(accepted) + 1] = j
          /\ \A k \in 1..Len(accepted) : accepted'[k] = accepted[k]
      BY <1>0, <2>1
    <3>3. Waiting' \in Seq(Job) /\ Len(Waiting') = count + 1
          /\ \A k \in 1..(count + 1) : Waiting'[k] = accepted'[taken + k]
      BY <1>0, <1>1, <3>2 DEF Waiting
    <3>4. Append(Waiting, j) \in Seq(Job) /\ Len(Append(Waiting, j)) = count + 1
          /\ Append(Waiting, j)[count + 1] = j
          /\ \A k \in 1..count : Append(Waiting, j)[k] = Waiting[k]
      BY <3>1
    <3>5. ASSUME NEW k \in 1..(count + 1) PROVE Waiting'[k] = Append(Waiting, j)[k]
      <4>1. CASE k = count + 1
        <5>1. taken + (count + 1) = Len(accepted) + 1
          BY <1>0
        <5>2. Waiting'[count + 1] = j
          BY <1>0, <3>2, <3>3, <5>1
        <5> QED BY <3>4, <4>1, <5>2
      <4>2. CASE k \in 1..count
        <5>1. taken + k \in 1..Len(accepted)
          BY <1>0, <4>2
        <5>2. Waiting'[k] = accepted'[taken + k] /\ accepted'[taken + k] = accepted[taken + k]
          BY <3>2, <3>3, <5>1
        <5>3. Append(Waiting, j)[k] = accepted[taken + k]
          BY <3>1, <3>4, <4>2
        <5> QED BY <5>2, <5>3
      <4>3. k = count + 1 \/ k \in 1..count
        BY <1>0
      <4> QED BY <4>1, <4>2, <4>3
    <3> QED BY <3>3, <3>4, <3>5
  <2>3. completed[j] = 0 /\ j \notin Promise!Accepted /\ Len(Waiting) < MaxPending
    BY <2>1, NotYetAccepted, WaitingJobs DEF JobInv, ResetFirst
  <2>4. Promise!Accept(j)
    BY <1>1, <1>2, <1>3, <2>1, <2>2, <2>3 DEF Promise!Accept
  <2> QED BY <2>4 DEF Promise!Next
<1>6. CASE ~SubmitEnqueue(j) /\ ~(SubmitBegin(j) /\ state = "running")
  <2>1. UNCHANGED <<accepted, completed>>
    BY <1>6 DEF SubmitBegin, SubmitStep, SubmitFull, SubmitSignal, history
  <2> QED BY <1>1, <1>2, <2>1 DEF Promise!queueVars, Waiting
<1> QED BY <1>4, <1>5, <1>6

\* A close or a failing init tells the queue to drain or to abort, and a join of the workers
\* disposes of it.
LEMMA ClosersEndQueue ==
  ASSUME PoolInv, Gone, CloserSteps
  PROVE  [Promise!Next]_(Promise!queueVars)
<1>0. /\ UNCHANGED <<worker, accepted, taken, finished, completed>>
      /\ Waiting' = Waiting /\ Executing' = Executing /\ Lost' = Lost
  BY ClosersKeep DEF Waiting, Executing, Lost
<1>1. TypeOK /\ state \in State
  BY DEF PoolInv, TypeOK
<1>2. ASSUME NEW mode \in {"drain", "abort"}, life # "gone" \/ Lost # {}, life' = life,
             state' = mode
      PROVE  Promise!Close(mode)
  <2>1. Phase = state /\ Phase' = mode /\ Phase # "gone"
    BY <1>0, <1>1, <1>2 DEF Phase, State
  <2>2. MayBegin' \in BOOLEAN /\ (MayBegin' => mode = "abort" /\ (Phase = "abort" => MayBegin))
    BY <1>0, <2>1 DEF MayBegin
  <2> QED BY <1>0, <2>1, <2>2 DEF Promise!Close
<1>3. CASE CreateFails
  <2>1. life # "gone" /\ life' = life /\ state' = "abort"
    BY <1>3 DEF CreateFails, Gone
  <2> QED BY <1>2, <2>1 DEF Promise!Next
<1>4. ASSUME NEW c \in Closer, CloseStore(c)
      PROVE  [Promise!Next]_(Promise!queueVars)
  <2>1. close[c].mode \in {"drain", "abort"} /\ life' = life /\ state' = close[c].mode
    BY <1>1, <1>4 DEF CloseStore, TypeOK, CloseCall
  <2>2. CASE life = "gone" /\ Lost = {}
    <3>1. Phase = "gone" /\ Phase' = "gone" /\ MayBegin' = MayBegin
      BY <1>0, <2>1, <2>2 DEF Phase, MayBegin
    <3> QED BY <1>0, <3>1 DEF Promise!queueVars
  <2>3. CASE life # "gone" \/ Lost # {}
    BY <1>2, <2>1, <2>3 DEF Promise!Next
  <2> QED BY <2>2, <2>3
<1>5. CASE UndoDestroy \/ DestroyPool
  <2>1. /\ life # "gone" /\ life' = "gone" /\ state' = state
        /\ \A w \in Worker : worker[w].pc # "none" => joins[w] # "none"
    BY <1>5 DEF UndoDestroy, DestroyPool, Created, Joined, Gone
  <2>2. CASE Lost # {}
    <3>1. Phase = state /\ Phase' = state
      BY <1>0, <2>1, <2>2 DEF Phase
    <3>2. MayBegin' = MayBegin
      BY <1>0, <3>1 DEF MayBegin
    <3> QED BY <1>0, <3>1, <3>2 DEF Promise!queueVars
  <2>3. CASE Lost = {}
    <3>1. \A w \in Worker : worker[w].pc \in {"none", "exit"}
      BY <1>1, <2>1, <2>3 DEF Lost, TypeOK, Gone
    <3>2. Phase # "gone" /\ Phase' = "gone" /\ MayBegin' = FALSE
      BY <1>0, <1>1, <2>1, <2>3 DEF Phase, MayBegin, State
    <3>3. Executing = {}
      BY <3>1 DEF Executing
    <3> QED BY <1>0, <3>2, <3>3 DEF Promise!Next, Promise!Dispose
  <2> QED BY <2>2, <2>3
<1>6. CASE UNCHANGED <<life, state>>
  <2>1. Phase' = Phase /\ MayBegin' = MayBegin
    BY <1>0, <1>6 DEF Phase, MayBegin
  <2> QED BY <1>0, <2>1 DEF Promise!queueVars
<1>7. \/ CreateFails \/ UndoDestroy \/ DestroyPool \/ UNCHANGED <<life, state>>
      \/ \E c \in Closer : CloseStore(c)
  BY DEF CloserSteps, OwnerMoves, CallDestroy, CloseDrain, CloseAbort, CloseTimesOut, UndoWake,
     DestroyFails, CloseStep, CloseWake, CloseReadQueue, CloseReadActive, CloseSleeps, CloseFinal
<1> QED BY <1>3, <1>4, <1>5, <1>6, <1>7

\* A pool is a bounded first-in first-out queue of jobs: they begin in the order in which they
\* were accepted, at most WorkerCount execute at a time, each executes once and completes after
\* that; after an abort at most one more begins; and nothing executes in a pool that is gone.
THEOREM PoolIsJobQueue == Spec => ImplementsJobQueue
<1>1. Init => Promise!Init
  <2> SUFFICES ASSUME Init PROVE Promise!Init
    OBVIOUS
  <2>1. Phase = "running" /\ Executing = {} /\ Waiting = <<>>
    BY DEF Init, Phase, Executing, Waiting
  <2>2. MayBegin = FALSE
    BY <2>1 DEF MayBegin
  <2> QED BY <2>1, <2>2 DEF Init, Promise!Init
<1>2. PoolInv /\ JobInv /\ Gone /\ Quiet /\ [Next]_vars => [Promise!Next]_(Promise!queueVars)
  <2> SUFFICES ASSUME PoolInv, JobInv, Gone, Quiet, [Next]_vars
               PROVE  [Promise!Next]_(Promise!queueVars)
    OBVIOUS
  <2>1. CASE CreateWorker
    <3>1. PICK w \in Worker : /\ worker[w].pc = "none"
                              /\ WorkerBecomes(w, "gate", worker[w].seen, worker[w].job)
      BY <2>1, CreateRecords DEF PoolInv
    <3>2. Executing' = Executing /\ Phase' = Phase
      BY <2>1, <3>1 DEF Executing, WorkerBecomes, CreateWorker, Phase, Lost, Quiet
    <3>3. MayBegin' = MayBegin
      BY <3>1, <3>2 DEF MayBegin, WorkerBecomes
    <3> QED BY <2>1, <3>2, <3>3 DEF CreateWorker, history, Waiting, Promise!queueVars
  <2>2. CASE JoinStep
    <3>1. Untouched /\ (joins' = joins \/ life # "gone")
      BY <2>2, JoinsTouchNothing DEF JoinStep, JoinWorker, JoinFails, JoinReturns, vars, Gone
    <3>2. Phase' = Phase
      BY <3>1 DEF Untouched, Phase, Lost
    <3> QED BY <3>1, <3>2 DEF Untouched, Waiting, Executing, MayBegin, Promise!queueVars
  <2>3. ASSUME NEW w \in Worker, WorkerStep(w) PROVE [Promise!Next]_(Promise!queueVars)
    BY <2>3, WorkersServeQueue
  <2>4. ASSUME NEW j \in Job, SubmitBegin(j) \/ SubmitStep(j)
        PROVE  [Promise!Next]_(Promise!queueVars)
    BY <2>4, SubmitsFeedQueue
  <2>5. CASE CloserSteps
    BY <2>5, ClosersEndQueue
  <2> QED BY <2>1, <2>2, <2>3, <2>4, <2>5, Actors
<1>3. Init => Gone /\ Quiet
  BY PoolAssumption DEF Init, Gone, Quiet, Submitting
<1> QED BY <1>1, <1>2, <1>3, JobsHold, GoneStays, QuietStays, PTL
        DEF Spec, ImplementsJobQueue, Promise!Spec

-----------------------------------------------------------------------------
(* Wakeups                                                                 *)

\* The workers that used a permit and have not looked at the queue yet, and the submits
\* that enqueued a job and have not signalled the gate yet.
AtQueue    == {w \in Worker : worker[w].pc \in {"lock", "inspect"}}
Signalling == {j \in Job : submit[j] = "signal"}

\* A closer that has told the pool to stop, or that undoes its creation.
Stopping == {"undoWake", "undoJoin", "wake", "queued", "active", "sleep", "final", "join"}

\* While the pool runs, nobody wakes a worker but a submit, and every permit, used or not
\* or still to come, stands for a job in the queue.
Running == state = "running" =>
    /\ permits + Cardinality(AtQueue) + Cardinality(Signalling) = count
    /\ \A w \in Worker : /\ worker[w].pc \notin {"signal", "exit"}
                         /\ worker[w].pc = "inspect" => worker[w].seen = "running"
    /\ \A c \in Closer : close[c].pc \notin Stopping

WakeInv == Running /\ IsFiniteSet(Signalling) /\ NoIdleWakeup

LEMMA WorkerKeepsWakeups ==
  ASSUME PoolInv, WakeInv, NEW w \in Worker, WorkerStep(w)
  PROVE  WakeInv'
<1>0. /\ TypeOK /\ permits \in Nat /\ count \in 0..MaxPending /\ MaxPending \in Nat
      /\ AtQueue \in SUBSET Worker /\ Cardinality(Signalling) \in Nat
      /\ Cardinality(AtQueue) \in Nat /\ WorkerCount \in Nat
  <2>1. Cardinality(AtQueue) \in Nat /\ Cardinality(Signalling) \in Nat
    BY CountedWorkers, FS_CardinalityType, PoolAssumption DEF AtQueue, WakeInv
  <2> QED BY <2>1, PoolAssumption DEF PoolInv, TypeOK, AtQueue
<1>1. UNCHANGED <<submit, close, state>>
  BY DEF WorkerStep, WorkerGate, WorkerLock, WorkerLeaves, WorkerTakes, WorkerRuns,
         WorkerCompletes, WorkerNotActive, WorkerChecks, WorkerSignals
<1>2. Signalling' = Signalling /\ IsFiniteSet(Signalling)'
  BY <1>1 DEF Signalling, WakeInv
<1>3. ASSUME NEW p, NEW s, NEW j, WorkerBecomes(w, p, s, j)
      PROVE  AtQueue' = IF p \in {"lock", "inspect"} THEN AtQueue \cup {w} ELSE AtQueue \ {w}
  BY <1>3 DEF WorkerBecomes, AtQueue
\* A step that stays on one side of the gate and of the queue.
<1>4. ASSUME NEW p, NEW s, NEW j, WorkerBecomes(w, p, s, j), p \notin {"signal", "exit", "inspect"},
             UNCHANGED <<permits, count>>,
             worker[w].pc = "lock" <=> p = "lock", worker[w].pc # "inspect"
      PROVE  WakeInv'
  <2>1. AtQueue' = AtQueue
    BY <1>3, <1>4 DEF AtQueue
  <2> QED BY <1>1, <1>2, <1>4, <2>1 DEF WorkerBecomes, WakeInv, Running, NoIdleWakeup
<1>5. CASE WorkerGate(w)
  <2>1. WorkerBecomes(w, "lock", worker[w].seen, worker[w].job)
    BY <1>0, <1>5, WorkerRecords
  <2>2. w \notin AtQueue
    BY <1>5 DEF WorkerGate, AtQueue
  <2>3. Cardinality(AtQueue') = Cardinality(AtQueue) + 1
    BY <1>0, <1>3, <2>1, <2>2, CountedWorkers
  <2>4. permits' = permits - 1 /\ count' = count
    BY <1>5 DEF WorkerGate, ring
  <2>5. permits' + Cardinality(AtQueue') + Cardinality(Signalling)
           = permits + Cardinality(AtQueue) + Cardinality(Signalling)
    BY <1>0, <2>3, <2>4
  <2> QED BY <1>1, <1>2, <2>1, <2>4, <2>5 DEF WorkerBecomes, WakeInv, Running, NoIdleWakeup
<1>6. CASE WorkerLock(w)
  <2>1. WorkerBecomes(w, "inspect", state, worker[w].job)
    BY <1>0, <1>6, WorkerRecords
  <2>2. w \in AtQueue /\ UNCHANGED <<permits, count>>
    BY <1>6 DEF WorkerLock, AtQueue, ring
  <2>3. AtQueue' = AtQueue
    BY <1>3, <2>1, <2>2
  <2>4. Cardinality(AtQueue) > 0
    <3>1. Cardinality(AtQueue \ {w}) = Cardinality(AtQueue) - 1
          /\ Cardinality(AtQueue \ {w}) \in 0..WorkerCount
      BY <1>0, <2>2, CountedWorkers
    <3> QED BY <1>0, <3>1
  <2>5. state = "running" => count > 0
    <3>1. state = "running" => permits + Cardinality(AtQueue) + Cardinality(Signalling) = count
      BY DEF WakeInv, Running
    <3> QED BY <1>0, <2>4, <3>1
  <2> QED BY <1>1, <1>2, <2>1, <2>2, <2>3, <2>5 DEF WorkerBecomes, WakeInv, Running, NoIdleWakeup
<1>7. CASE WorkerLeaves(w)
  <2>1. WorkerBecomes(w, IF worker[w].seen = "running" THEN "gate" ELSE "exit",
                      worker[w].seen, worker[w].job)
    BY <1>0, <1>7, WorkerRecords
  <2>2. worker[w].pc = "inspect" /\ (worker[w].seen = "abort" \/ count = 0) /\ count' = count
    BY <1>7 DEF WorkerLeaves, ring
  <2>3. state # "running"
    BY <1>0, <2>2 DEF WakeInv, Running, NoIdleWakeup
  <2> QED BY <1>1, <1>2, <2>1, <2>2, <2>3 DEF WorkerBecomes, WakeInv, Running, NoIdleWakeup
<1>8. CASE WorkerTakes(w)
  <2>1. WorkerBecomes(w, "run", worker[w].seen, slots[head])
    BY <1>0, <1>8, WorkerRecords
  <2>2. worker[w].pc = "inspect" /\ count' = count - 1 /\ permits' = permits /\ w \in AtQueue
    BY <1>8 DEF WorkerTakes, AtQueue
  <2>3. Cardinality(AtQueue') = Cardinality(AtQueue) - 1
    BY <1>0, <1>3, <2>1, <2>2, CountedWorkers
  <2>4. permits + Cardinality(AtQueue) + Cardinality(Signalling) = count =>
          permits' + Cardinality(AtQueue') + Cardinality(Signalling) = count'
    BY <1>0, <2>2, <2>3
  <2>5. \A v \in Worker \ {w} : worker[v].pc # "inspect"
    BY <2>2 DEF PoolInv, Held
  <2> QED BY <1>1, <1>2, <2>1, <2>2, <2>4, <2>5 DEF WorkerBecomes, WakeInv, Running, NoIdleWakeup
<1>9. CASE WorkerChecks(w)
  <2>1. WorkerBecomes(w, IF state = "drain" THEN "signal" ELSE "gate", worker[w].seen, worker[w].job)
    BY <1>0, <1>9, WorkerRecords
  <2>2. worker[w].pc = "check" /\ UNCHANGED <<permits, count>>
    BY <1>9 DEF WorkerChecks, ring
  <2>3. CASE state = "drain"
    BY <1>1, <1>2, <2>1, <2>2, <2>3 DEF WorkerBecomes, WakeInv, Running, NoIdleWakeup
  <2>4. CASE state # "drain"
    BY <1>4, <2>1, <2>2, <2>4
  <2> QED BY <2>3, <2>4
<1>10. CASE WorkerSignals(w)
  <2>1. WorkerBecomes(w, "gate", worker[w].seen, worker[w].job)
    BY <1>0, <1>10, WorkerRecords
  <2>2. state # "running" /\ count' = count
    BY <1>10 DEF WorkerSignals, WakeInv, Running, ring
  <2> QED BY <1>1, <1>2, <2>1, <2>2 DEF WorkerBecomes, WakeInv, Running, NoIdleWakeup
<1>11. CASE WorkerRuns(w) \/ WorkerCompletes(w) \/ WorkerNotActive(w)
  <2>1. \E p \in {"complete", "leave", "check"}, s \in State, j \in Job \cup {NoJob} :
            WorkerBecomes(w, p, s, j)
    <3>1. worker[w].seen \in State /\ worker[w].job \in Job \cup {NoJob}
      BY <1>0 DEF TypeOK
    <3> QED BY <1>0, <1>11, <3>1, WorkerRecords
  <2>2. worker[w].pc \in {"run", "complete", "leave"} /\ UNCHANGED <<permits, count>>
    BY <1>11 DEF WorkerRuns, WorkerCompletes, WorkerNotActive, ring
  <2> QED BY <1>4, <2>1, <2>2
<1> QED BY <1>5, <1>6, <1>7, <1>8, <1>9, <1>10, <1>11 DEF WorkerStep

LEMMA SubmitKeepsWakeups ==
  ASSUME PoolInv, WakeInv, NEW j \in Job, SubmitBegin(j) \/ SubmitStep(j)
  PROVE  WakeInv'
<1>0. /\ TypeOK /\ permits \in Nat /\ count \in 0..MaxPending /\ MaxPending \in Nat
      /\ submit \in [Job -> SubmitPc] /\ IsFiniteSet(Signalling)
      /\ Cardinality(Signalling) \in Nat /\ Cardinality(AtQueue) \in Nat
  <2>1. Cardinality(AtQueue) \in Nat /\ Cardinality(Signalling) \in Nat
    BY CountedWorkers, FS_CardinalityType, PoolAssumption DEF AtQueue, WakeInv
  <2> QED BY <2>1, PoolAssumption DEF PoolInv, TypeOK, WakeInv
<1>1. UNCHANGED <<worker, close, state>> /\ AtQueue' = AtQueue
  BY DEF SubmitBegin, SubmitStep, SubmitFull, SubmitEnqueue, SubmitSignal, AtQueue
<1>2. CASE SubmitEnqueue(j)
  <2>1. Signalling' = Signalling \cup {j} /\ j \notin Signalling
    BY <1>0, <1>2 DEF SubmitEnqueue, Signalling
  <2>2. IsFiniteSet(Signalling') /\ Cardinality(Signalling') = Cardinality(Signalling) + 1
    BY <1>0, <2>1, FS_AddElement
  <2>3. count' = count + 1 /\ permits' = permits
    BY <1>2 DEF SubmitEnqueue
  <2>4. permits + Cardinality(AtQueue) + Cardinality(Signalling) = count =>
          permits' + Cardinality(AtQueue) + Cardinality(Signalling') = count'
    BY <1>0, <2>2, <2>3
  <2>5. NoIdleWakeup'
    BY <1>0, <1>1, <2>3 DEF WakeInv, NoIdleWakeup
  <2> QED BY <1>1, <2>2, <2>4, <2>5 DEF WakeInv, Running
<1>3. CASE SubmitSignal(j)
  <2>1. Signalling' = Signalling \ {j} /\ j \in Signalling
    BY <1>0, <1>3 DEF SubmitSignal, Signalling
  <2>2. IsFiniteSet(Signalling') /\ Cardinality(Signalling') = Cardinality(Signalling) - 1
    BY <1>0, <2>1, FS_RemoveElement
  <2>3. count' = count /\ permits' = permits + 1
    BY <1>3 DEF SubmitSignal, ring
  <2>4. permits + Cardinality(AtQueue) + Cardinality(Signalling) = count =>
          permits' + Cardinality(AtQueue) + Cardinality(Signalling') = count'
    BY <1>0, <2>2, <2>3
  <2> QED BY <1>1, <2>2, <2>3, <2>4 DEF WakeInv, Running, NoIdleWakeup
<1>4. CASE SubmitBegin(j) \/ SubmitFull(j)
  <2>1. Signalling' = Signalling /\ UNCHANGED <<permits, count>>
    BY <1>0, <1>4 DEF SubmitBegin, SubmitFull, Signalling, ring
  <2> QED BY <1>1, <2>1 DEF WakeInv, Running, NoIdleWakeup
<1> QED BY <1>2, <1>3, <1>4 DEF SubmitStep

LEMMA ClosersKeepWakeups == ASSUME PoolInv, WakeInv, CloserSteps PROVE WakeInv'
<1>0. TypeOK /\ Owner \in Closer
  BY PoolAssumption DEF PoolInv
<1>1. UNCHANGED <<worker, submit, count>>
  BY ClosersKeep
<1>2. IsFiniteSet(Signalling)' /\ NoIdleWakeup' /\ AtQueue' = AtQueue /\ Signalling' = Signalling
  BY <1>1 DEF WakeInv, NoIdleWakeup, AtQueue, Signalling
<1>3. CASE state' # "running"
  BY <1>2, <1>3 DEF WakeInv, Running
<1>4. CASE state' = "running"
  <2>1. /\ ~CreateFails /\ \A c \in Closer : ~CloseStore(c)
    BY <1>0, <1>4 DEF CreateFails, CloseStore, TypeOK, CloseCall
  <2>2. state = "running"
    BY <1>4, <2>1 DEF CloserSteps, OwnerMoves, UndoWake, UndoDestroy, DestroyFails, DestroyPool, CallDestroy,
         CloseDrain, CloseAbort, CloseStep, CloseTimesOut, CloseWake, CloseReadQueue,
         CloseReadActive, CloseSleeps, CloseFinal
  <2>3. \A c \in Closer : close[c].pc \notin Stopping
    BY <2>2 DEF WakeInv, Running
  <2>4. ~OwnerMoves /\ \A c \in Closer : ~CloseStep(c) /\ ~CloseTimesOut(c)
    BY <1>0, <2>1, <2>3 DEF OwnerMoves, UndoWake, UndoDestroy, DestroyFails, DestroyPool, CloseStep, CloseTimesOut,
         CloseWake, CloseReadQueue, CloseReadActive, CloseSleeps, CloseFinal, Stopping
  <2>5. PICK c \in Closer : (c = Owner /\ CallDestroy) \/ CloseDrain(c) \/ CloseAbort(c)
    BY <1>0, <2>1, <2>4 DEF CloserSteps
  <2>6. close'[c].pc \in {"idle", "store"} /\ \A d \in Closer \ {c} : close'[d] = close[d]
    BY <1>0, <2>5, CloserRecords DEF CloserBecomes
  <2>7. permits' = permits
    BY <2>5 DEF CallDestroy, CloseDrain, CloseAbort
  <2> QED BY <1>1, <1>2, <2>2, <2>3, <2>6, <2>7 DEF WakeInv, Running, Stopping
<1> QED BY <1>3, <1>4

LEMMA WakeupsHold == Spec => [](PoolInv /\ WakeInv)
<1>1. Init => WakeInv
  <2> SUFFICES ASSUME Init PROVE WakeInv
    OBVIOUS
  <2>1. AtQueue = {} /\ Signalling = {}
    BY DEF Init, AtQueue, Signalling
  <2>2. Cardinality(AtQueue) = 0 /\ Cardinality(Signalling) = 0 /\ IsFiniteSet(Signalling)
    BY <2>1, FS_EmptySet
  <2>3. \A c \in Closer : close[c].pc \notin Stopping
    BY DEF Init, Stopping
  <2> QED BY <2>2, <2>3 DEF Init, WakeInv, Running, NoIdleWakeup
<1>2. PoolInv /\ WakeInv /\ JoinStep => WakeInv'
  BY JoinsTouchNothing DEF Untouched, WakeInv, Running, NoIdleWakeup, AtQueue, Signalling
<1>3. PoolInv /\ WakeInv /\ CreateWorker => WakeInv'
  <2> SUFFICES ASSUME PoolInv, WakeInv, CreateWorker PROVE WakeInv'
    OBVIOUS
  <2>1. PICK w \in Worker : /\ worker[w].pc = "none"
                            /\ WorkerBecomes(w, "gate", worker[w].seen, worker[w].job)
    BY CreateRecords DEF PoolInv
  <2>2. UNCHANGED <<state, count, permits, submit>>
        /\ (close' = close \/ CloserMoves(Owner, "idle"))
    BY CreateRecords DEF CreateWorker, ring, PoolInv
  <2>3. AtQueue' = AtQueue /\ Signalling' = Signalling /\ IsFiniteSet(Signalling)'
    BY <2>1, <2>2 DEF AtQueue, Signalling, WorkerBecomes, WakeInv
  <2>4. (\A c \in Closer : close[c].pc \notin Stopping) =>
           \A c \in Closer : close'[c].pc \notin Stopping
    BY <2>2 DEF CloserMoves, CloserBecomes, Stopping
  <2> QED BY <2>1, <2>2, <2>3, <2>4 DEF WakeInv, Running, NoIdleWakeup, WorkerBecomes
<1>4. PoolInv /\ WakeInv /\ [Next]_vars => WakeInv'
  BY <1>2, <1>3, Actors, WorkerKeepsWakeups, SubmitKeepsWakeups, ClosersKeepWakeups
<1> QED BY <1>1, <1>4, PoolHolds, PTL DEF Spec

\* No worker of a running pool passes the gate and finds the queue empty.
THEOREM NobodyWakesInVain == Spec => []NoIdleWakeup
<1>1. WakeInv => NoIdleWakeup
  BY DEF WakeInv
<1> QED BY <1>1, WakeupsHold, PTL

-----------------------------------------------------------------------------
(* Nobody is left behind at the gate                                       *)

\* The workers that have not left, and those of them that do not need another permit: in
\* a draining pool whoever passed the gate, since it wakes another worker before it comes
\* back; in one that aborts those that are about to leave or to signal.
Living           == {w \in Worker : worker[w].pc \notin {"none", "exit"}}
Provided(p, saw) == \/ p \in {"lock", "signal"}
                    \/ p = "inspect" /\ (state = "drain" \/ saw = "abort")
                    \/ p \in {"run", "complete", "leave", "check"} /\ state = "drain"
Cover            == {w \in Worker : Provided(worker[w].pc, worker[w].seen)}

\* The wakeups a closer has still to send.
Pending(c) == IF close[c].pc \in {"wake", "undoWake"} THEN close[c].left ELSE 0

\* In a pool that is not running, the permits, with those that one of the closers has still to
\* send, suffice for the workers that need one.
Enough == \E c \in Closer :
             Cardinality(Living) <= permits + Cardinality(Cover) + Pending(c)

\* Nobody closes a pool before it is created.
Creating == close[Owner].pc = "create" =>
                /\ state = "running" /\ life = "absent"
                /\ \A c \in Closer \ {Owner} : close[c].pc = "idle"

StrandInv == (state # "running" => Enough) /\ Creating

\* The numbers of a pool, and that a permit for each worker is enough.
LEMMA StrandNumbers ==
  ASSUME PoolInv
  PROVE  /\ Living \in SUBSET Worker /\ Cover \in SUBSET Worker
         /\ Cardinality(Living) \in 0..WorkerCount /\ Cardinality(Cover) \in 0..WorkerCount
         /\ permits \in Nat /\ WorkerCount \in Nat
         /\ \A c \in Closer : Pending(c) \in 0..WorkerCount
<1>1. Living \in SUBSET Worker /\ Cover \in SUBSET Worker
  BY DEF Living, Cover
<1>2. \A c \in Closer : Pending(c) \in 0..WorkerCount
  BY PoolAssumption DEF PoolInv, TypeOK, CloseCall, Pending
<1> QED BY <1>1, <1>2, CountedWorkers, PoolAssumption DEF PoolInv, TypeOK

\* A step of a worker that leaves it provided for, or pays for what it takes, leaves enough.
LEMMA StepKeepsEnough ==
  ASSUME PoolInv, PoolInv', Enough, UNCHANGED <<state, close>>,
         NEW w \in Worker, NEW p, NEW s, NEW j, WorkerBecomes(w, p, s, j),
         worker[w].pc \notin {"none", "exit"}, p # "none",
         \/ permits' = permits /\ (Provided(worker[w].pc, worker[w].seen) =>
                                      Provided(p, s) \/ p = "exit")
         \/ permits' = permits - 1 /\ ~Provided(worker[w].pc, worker[w].seen) /\ Provided(p, s)
         \/ permits' = permits + 1 /\ p # "exit"
  PROVE  Enough'
<1>0. /\ Living \in SUBSET Worker /\ Cover \in SUBSET Worker
      /\ Cardinality(Living) \in Nat /\ Cardinality(Cover) \in Nat
      /\ Cardinality(Living') \in Nat /\ Cardinality(Cover') \in Nat
      /\ permits \in Nat /\ permits' \in Nat
  <2>1. /\ Cardinality(Living) \in Nat /\ Cardinality(Cover) \in Nat /\ permits \in Nat
    BY StrandNumbers
  <2>2. Living' \in SUBSET Worker /\ Cover' \in SUBSET Worker
    BY DEF Living, Cover
  <2>3. Cardinality(Living') \in Nat /\ Cardinality(Cover') \in Nat
    BY <2>2, CountedWorkers, PoolAssumption
  <2> QED BY <2>1, <2>3 DEF Living, Cover, PoolInv, TypeOK
<1>1. /\ w \in Cover <=> Provided(worker[w].pc, worker[w].seen)
      /\ w \in Cover' <=> Provided(p, s)
      /\ Cover' = IF w \in Cover' THEN Cover \cup {w} ELSE Cover \ {w}
  BY DEF WorkerBecomes, Cover, Provided
<1>2. Cardinality(Cover') = IF w \in Cover' /\ w \notin Cover THEN Cardinality(Cover) + 1
                            ELSE IF w \in Cover /\ w \notin Cover' THEN Cardinality(Cover) - 1
                            ELSE Cardinality(Cover)
  <2>1. CASE w \in Cover <=> w \in Cover'
    <3>1. Cover' = Cover
      BY <1>1, <2>1
    <3> QED BY <2>1, <3>1
  <2>2. CASE w \notin Cover /\ w \in Cover'
    BY <1>0, <1>1, <2>2, CountedWorkers
  <2>3. CASE w \in Cover /\ w \notin Cover'
    BY <1>0, <1>1, <2>3, CountedWorkers
  <2> QED BY <2>1, <2>2, <2>3
<1>3. w \in Living /\ Living' = IF p = "exit" THEN Living \ {w} ELSE Living
  BY DEF WorkerBecomes, Living
<1>4. Cardinality(Living') = IF p = "exit" THEN Cardinality(Living) - 1 ELSE Cardinality(Living)
  BY <1>0, <1>3, CountedWorkers
<1>5. Cardinality(Living') + (permits + Cardinality(Cover))
         <= Cardinality(Living) + (permits' + Cardinality(Cover'))
  BY <1>0, <1>1, <1>2, <1>4
<1>6. PICK c \in Closer : Cardinality(Living) <= permits + Cardinality(Cover) + Pending(c)
  BY DEF Enough
<1>7. Pending(c)' = Pending(c) /\ Pending(c) \in Nat
  BY StrandNumbers, PoolAssumption DEF Pending
<1>8. Cardinality(Living') <= permits' + Cardinality(Cover') + Pending(c)'
  BY <1>0, <1>5, <1>6, <1>7
<1> QED BY <1>8 DEF Enough

LEMMA WorkerStrandsNobody ==
  ASSUME PoolInv, PoolInv', WakeInv, StrandInv, NEW w \in Worker, WorkerStep(w)
  PROVE  StrandInv'
<1>0. /\ TypeOK /\ permits \in Nat /\ state \in State
      /\ worker[w].pc \in WorkerPc /\ worker[w].seen \in State
  BY DEF PoolInv, TypeOK
<1>1. UNCHANGED <<life, close, state>> /\ worker[w].pc \notin {"none", "exit"}
  BY DEF WorkerStep, WorkerGate, WorkerLock, WorkerLeaves, WorkerTakes, WorkerRuns,
         WorkerCompletes, WorkerNotActive, WorkerChecks, WorkerSignals
<1>2. Creating'
  BY <1>1 DEF StrandInv, Creating
<1> SUFFICES ASSUME state # "running" PROVE Enough'
  BY <1>1, <1>2 DEF StrandInv
<1>3. Enough
  BY DEF StrandInv
<1>4. ASSUME NEW p, NEW s, NEW j, WorkerBecomes(w, p, s, j), p # "none", permits' = permits,
             Provided(worker[w].pc, worker[w].seen) => Provided(p, s) \/ p = "exit"
      PROVE  Enough'
  BY <1>1, <1>3, <1>4, StepKeepsEnough
<1>5. CASE WorkerGate(w)
  <2>1. WorkerBecomes(w, "lock", worker[w].seen, worker[w].job)
    BY <1>0, <1>5, WorkerRecords
  <2>2. permits' = permits - 1 /\ worker[w].pc = "gate"
    BY <1>5 DEF WorkerGate
  <2>3. Provided("lock", worker[w].seen) /\ ~Provided(worker[w].pc, worker[w].seen)
    BY <2>2 DEF Provided
  <2> QED BY <1>1, <1>3, <2>1, <2>2, <2>3, StepKeepsEnough
<1>6. CASE WorkerLock(w)
  <2>1. WorkerBecomes(w, "inspect", state, worker[w].job) /\ permits' = permits
    BY <1>0, <1>6, WorkerRecords DEF WorkerLock
  <2>2. Provided("inspect", state)
    BY <1>0 DEF Provided, State
  <2> QED BY <1>4, <2>1, <2>2
<1>7. CASE WorkerLeaves(w)
  <2>1. /\ worker[w].pc = "inspect" /\ (worker[w].seen = "abort" \/ count = 0)
        /\ permits' = permits
        /\ WorkerBecomes(w, IF worker[w].seen = "running" THEN "gate" ELSE "exit",
                         worker[w].seen, worker[w].job)
    BY <1>0, <1>7, WorkerRecords DEF WorkerLeaves
  <2>2. worker[w].seen # "running"
    BY <2>1 DEF WakeInv, NoIdleWakeup
  <2> QED BY <1>4, <2>1, <2>2
<1>8. CASE WorkerTakes(w)
  <2>1. WorkerBecomes(w, "run", worker[w].seen, slots[head])
    BY <1>0, <1>8, WorkerRecords
  <2>2. worker[w].pc = "inspect" /\ worker[w].seen # "abort" /\ permits' = permits
    BY <1>8 DEF WorkerTakes
  <2>3. Provided(worker[w].pc, worker[w].seen) => Provided("run", worker[w].seen)
    BY <2>2 DEF Provided
  <2> QED BY <1>4, <2>1, <2>2, <2>3
<1>9. CASE WorkerRuns(w) \/ WorkerCompletes(w) \/ WorkerNotActive(w)
  <2>1. \E p \in {"complete", "leave", "check"}, j \in Job \cup {NoJob} :
            WorkerBecomes(w, p, worker[w].seen, j)
    <3>1. worker[w].job \in Job \cup {NoJob}
      BY <1>0 DEF TypeOK
    <3> QED BY <1>0, <1>9, <3>1, WorkerRecords
  <2>2. worker[w].pc \in {"run", "complete", "leave"} /\ permits' = permits
    BY <1>9 DEF WorkerRuns, WorkerCompletes, WorkerNotActive
  <2>3. \A p \in {"complete", "leave", "check"} :
           Provided(worker[w].pc, worker[w].seen) => Provided(p, worker[w].seen)
    BY <2>2 DEF Provided
  <2> QED BY <1>4, <2>1, <2>2, <2>3
<1>10. CASE WorkerChecks(w)
  <2>1. WorkerBecomes(w, IF state = "drain" THEN "signal" ELSE "gate", worker[w].seen, worker[w].job)
    BY <1>0, <1>10, WorkerRecords
  <2>2. worker[w].pc = "check" /\ permits' = permits
    BY <1>10 DEF WorkerChecks
  <2>3. Provided(worker[w].pc, worker[w].seen) =>
           Provided(IF state = "drain" THEN "signal" ELSE "gate", worker[w].seen)
    BY <2>2 DEF Provided
  <2> QED BY <1>4, <2>1, <2>2, <2>3
<1>11. CASE WorkerSignals(w)
  <2>1. WorkerBecomes(w, "gate", worker[w].seen, worker[w].job)
    BY <1>0, <1>11, WorkerRecords
  <2>2. permits' = permits + 1
    BY <1>11 DEF WorkerSignals
  <2> QED BY <1>1, <1>3, <2>1, <2>2, StepKeepsEnough
<1> QED BY <1>5, <1>6, <1>7, <1>8, <1>9, <1>10, <1>11 DEF WorkerStep

\* More permits are never too many.
LEMMA SubmitStrandsNobody ==
  ASSUME PoolInv, PoolInv', StrandInv, NEW j \in Job, SubmitBegin(j) \/ SubmitStep(j)
  PROVE  StrandInv'
<1>1. UNCHANGED <<worker, close, state, life>>
  BY DEF SubmitBegin, SubmitStep, SubmitFull, SubmitEnqueue, SubmitSignal
<1>2. permits' = permits \/ permits' = permits + 1
  BY DEF SubmitBegin, SubmitStep, SubmitFull, SubmitEnqueue, SubmitSignal
<1>3. /\ Living' = Living /\ Cover' = Cover /\ \A c \in Closer : Pending(c)' = Pending(c)
      /\ Creating'
  BY <1>1 DEF Living, Cover, Provided, Pending, StrandInv, Creating
<1>4. Enough => Enough'
  <2> SUFFICES ASSUME NEW c \in Closer,
                      Cardinality(Living) <= permits + Cardinality(Cover) + Pending(c)
               PROVE  Cardinality(Living') <= permits' + Cardinality(Cover') + Pending(c)'
    BY DEF Enough
  <2>1. Cardinality(Living) \in Nat /\ Cardinality(Cover) \in Nat /\ permits \in Nat
        /\ Pending(c) \in Nat
    BY StrandNumbers
  <2> QED BY <1>2, <1>3, <2>1
<1> QED BY <1>1, <1>3, <1>4 DEF StrandInv

LEMMA ClosersStrandNobody ==
  ASSUME PoolInv, PoolInv', StrandInv, CloserSteps
  PROVE  StrandInv'
<1>0. TypeOK /\ Owner \in Closer /\ permits \in Nat
  BY PoolAssumption DEF PoolInv, TypeOK
<1>1. worker' = worker
  BY ClosersKeep
<1>2. Living' = Living
  BY <1>1 DEF Living
<1>3. /\ Living \in SUBSET Worker /\ Living' \in SUBSET Worker /\ Cover' \in SUBSET Worker
      /\ Cardinality(Living) \in 0..WorkerCount /\ Cardinality(Cover) \in 0..WorkerCount
      /\ Cardinality(Living') \in 0..WorkerCount /\ Cardinality(Cover') \in Nat
      /\ permits' \in Nat /\ WorkerCount \in Nat
  <2>1. Living \in SUBSET Worker /\ Cover \in SUBSET Worker /\ Cover' \in SUBSET Worker
    BY DEF Living, Cover
  <2> QED BY <1>2, <2>1, CountedWorkers, PoolAssumption DEF PoolInv, TypeOK
\* A closer that is to wake every worker has enough permits to send.
<1>4. ASSUME NEW c \in Closer, Pending(c)' = WorkerCount PROVE Enough'
  <2>1. Cardinality(Living') <= permits' + Cardinality(Cover') + Pending(c)'
    BY <1>3, <1>4
  <2> QED BY <2>1 DEF Enough
\* One that moves on has sent what it had to.
<1>5. ASSUME NEW c \in Closer, \A d \in Closer \ {c} : close'[d] = close[d], state' = state,
             permits' >= permits, permits' + Pending(c)' >= permits + Pending(c), Enough
      PROVE  Enough'
  <2>1. PICK d \in Closer : Cardinality(Living) <= permits + Cardinality(Cover) + Pending(d)
    BY <1>5 DEF Enough
  <2>2. Cover' = Cover
    BY <1>1, <1>5 DEF Cover, Provided
  <2>3. /\ Pending(c) \in Nat /\ Pending(d) \in Nat /\ Pending(d)' \in Nat /\ Pending(c)' \in Nat
    <3>1. \A e \in Closer : Pending(e) \in 0..WorkerCount
      BY StrandNumbers
    <3>2. \A e \in Closer : Pending(e)' \in 0..WorkerCount
      BY PoolAssumption DEF PoolInv, TypeOK, CloseCall, Pending
    <3> QED BY <1>3, <3>1, <3>2
  <2>4. c # d => Pending(d)' = Pending(d)
    BY <1>5 DEF Pending
  <2>5. Cardinality(Living') <= permits' + Cardinality(Cover') + Pending(d)'
    BY <1>0, <1>2, <1>3, <1>5, <2>1, <2>2, <2>3, <2>4
  <2> QED BY <2>5 DEF Enough
<1>6. close[Owner].pc = "create" => CreateFails
  <2> SUFFICES ASSUME close[Owner].pc = "create", ~CreateFails PROVE FALSE
    OBVIOUS
  <2>1. life = "absent" /\ \A c \in Closer : close[c].pc \in {"create", "idle"}
    BY DEF StrandInv, Creating
  <2> QED BY <1>0, <2>1 DEF CloserSteps, OwnerMoves, UndoWake, UndoDestroy, DestroyFails, DestroyPool, CallDestroy,
         CloseDrain, CloseAbort, MayClose, CloseStep, CloseTimesOut, CloseStore, CloseWake,
         CloseReadQueue, CloseReadActive, CloseSleeps, CloseFinal
<1>7. ASSUME NEW c \in Closer, NEW p, NEW mode, NEW left, NEW result, NEW owed,
             CloserBecomes(c, p, mode, left, result, owed), p # "create"
      PROVE  /\ Creating'
             /\ Pending(c)' = IF p \in {"wake", "undoWake"} THEN left ELSE 0
             /\ \A d \in Closer \ {c} : close'[d] = close[d]
  <2>1. close'[Owner].pc # "create"
    BY <1>0, <1>6, <1>7, CloserRecords DEF CloserBecomes, CloserMoves
  <2> QED BY <1>7, <2>1 DEF CloserBecomes, Creating, Pending
<1>8. CASE CreateFails
  <2>1. CloserMoves(Owner, "undoWake") /\ close[Owner].left = WorkerCount
    BY <1>0, <1>8, CloserRecords DEF PoolInv, LeftCounts, CreateFails
  <2>2. Creating' /\ Pending(Owner)' = WorkerCount
    BY <1>0, <1>7, <2>1 DEF CloserMoves
  <2> QED BY <1>0, <1>4, <2>2 DEF StrandInv
<1>9. ASSUME NEW c \in Closer, CloseStore(c) PROVE StrandInv'
  <2>1. CloserBecomes(c, "wake", close[c].mode, WorkerCount, close[c].result, ToSet(accepted))
    BY <1>0, <1>9, CloserRecords
  <2>2. Creating' /\ Pending(c)' = WorkerCount
    BY <1>7, <2>1
  <2> QED BY <1>4, <2>2 DEF StrandInv
\* The steps that send a wakeup.
<1>10. ASSUME NEW c \in Closer, NEW p \in ClosePc, NEW r, state' = state, permits' = permits + 1,
              p # "create", p \in {"wake", "undoWake"} \/ close[c].left = 1,
              close[c].pc \in {"wake", "undoWake"},
              CloserBecomes(c, p, close[c].mode, close[c].left - 1, r, close[c].owed)
       PROVE  StrandInv'
  <2>1. /\ Creating' /\ Pending(c)' = IF p \in {"wake", "undoWake"} THEN close[c].left - 1 ELSE 0
        /\ \A d \in Closer \ {c} : close'[d] = close[d]
    BY <1>7, <1>10
  <2>2. Pending(c) = close[c].left /\ Pending(c) \in Nat
    BY <1>3, <1>10, StrandNumbers DEF Pending
  <2>3. permits' >= permits /\ permits' + Pending(c)' >= permits + Pending(c)
    BY <1>0, <1>10, <2>1, <2>2
  <2> QED BY <1>5, <1>10, <2>1, <2>3 DEF StrandInv
<1>11. CASE UndoWake
  <2>1. /\ close[Owner].pc = "undoWake" /\ close[Owner].left > 0 /\ close[Owner].left \in Nat
        /\ state' = state /\ permits' = permits + 1
    BY <1>0, <1>11 DEF PoolInv, LeftCounts, UndoWake, TypeOK, CloseCall
  <2>2. CloserBecomes(Owner, IF close[Owner].left = 1 THEN "undoJoin" ELSE "undoWake",
                      close[Owner].mode, close[Owner].left - 1, close[Owner].result,
                      close[Owner].owed)
    BY <1>0, <1>11, <2>1, CloserRecords
  <2> QED BY <1>0, <1>10, <2>1, <2>2 DEF ClosePc
<1>12. ASSUME NEW c \in Closer, CloseWake(c) PROVE StrandInv'
  <2>1. /\ close[c].pc = "wake" /\ close[c].left > 0 /\ close[c].left \in Nat
        /\ state' = state /\ permits' = permits + 1
    BY <1>0, <1>12 DEF PoolInv, LeftCounts, CloseWake, TypeOK, CloseCall
  <2>2. CloserBecomes(c, IF close[c].left > 1 THEN "wake"
                         ELSE IF close[c].mode = "drain" THEN "queued" ELSE "active",
                      close[c].mode, close[c].left - 1, close[c].result, close[c].owed)
    BY <1>0, <1>12, <2>1, CloserRecords
  <2> QED BY <1>10, <2>1, <2>2 DEF ClosePc
\* The others have sent theirs, or have none to send yet.
<1>13. ASSUME NEW c \in Closer, state' = state, permits' = permits \/ permits' = permits + 1,
              close[c].pc \notin {"wake", "undoWake"}, NEW p \in ClosePc,
              p \notin {"create", "wake", "undoWake"},
              \E mode, left, result, owed : CloserBecomes(c, p, mode, left, result, owed)
       PROVE  StrandInv'
  <2>1. Creating' /\ Pending(c)' = 0 /\ \A d \in Closer \ {c} : close'[d] = close[d]
    BY <1>7, <1>13
  <2>2. Pending(c) = 0
    BY <1>13 DEF Pending
  <2> QED BY <1>0, <1>5, <1>13, <2>1, <2>2 DEF StrandInv
<1>14. CASE UndoDestroy \/ DestroyFails \/ DestroyPool \/ CallDestroy
  <2>1. /\ state' = state /\ permits' = permits /\ close[Owner].pc \notin {"wake", "undoWake"}
    BY <1>0, <1>14 DEF UndoDestroy, DestroyFails, DestroyPool, CallDestroy
  <2>2. \E p \in {"failed", "idle", "destroyed", "store"} : \E mode, left, result, owed :
            CloserBecomes(Owner, p, mode, left, result, owed)
    BY <1>0, <1>14, CloserRecords DEF CloserMoves
  <2> QED BY <1>0, <1>13, <2>1, <2>2 DEF ClosePc
<1>15. ASSUME NEW c \in Closer,
              \/ CloseDrain(c) \/ CloseAbort(c) \/ CloseTimesOut(c) \/ CloseReadQueue(c)
              \/ CloseReadActive(c) \/ CloseSleeps(c) \/ CloseFinal(c)
       PROVE  StrandInv'
  <2>1. /\ state' = state /\ (permits' = permits \/ permits' = permits + 1)
        /\ close[c].pc \notin {"wake", "undoWake"}
    BY <1>15 DEF CloseDrain, CloseAbort, MayClose, CloseTimesOut, CloseReadQueue, CloseReadActive,
         CloseSleeps, CloseFinal
  <2>2. \E p \in {"idle", "store", "queued", "active", "sleep", "final", "join"} :
           \E mode, left, result, owed : CloserBecomes(c, p, mode, left, result, owed)
    BY <1>0, <1>15, CloserRecords DEF CloserMoves
  <2> QED BY <1>13, <2>1, <2>2 DEF ClosePc
<1> QED BY <1>8, <1>9, <1>11, <1>12, <1>14, <1>15 DEF CloserSteps, OwnerMoves, CloseStep

\* Every worker that waits at the gate of a pool that is not to run any more, and whose closers
\* have sent their wakeups, has a permit waiting for it.
THEOREM NobodyIsLeftAtTheGate == Spec => []NobodyIsStranded
<1>1. Init => StrandInv
  BY DEF Init, StrandInv, Creating
<1>2. PoolInv /\ StrandInv /\ JoinStep => StrandInv'
  BY JoinsTouchNothing DEF Untouched, StrandInv, Creating, Enough, Living, Cover, Provided, Pending
<1>3. PoolInv /\ StrandInv /\ CreateWorker => StrandInv'
  <2> SUFFICES ASSUME PoolInv, StrandInv, CreateWorker PROVE StrandInv'
    OBVIOUS
  <2>1. state' = state /\ close[Owner].pc = "create" /\ state = "running"
    BY DEF CreateWorker, StrandInv, Creating
  <2>2. UNCHANGED <<life, close>> \/ close' = [close EXCEPT ![Owner].pc = "idle"]
    BY DEF CreateWorker
  <2>3. Creating'
    BY <2>1, <2>2, PoolAssumption DEF StrandInv, Creating, PoolInv, TypeOK, CloseCall
  <2> QED BY <2>1, <2>3 DEF StrandInv
<1>4. PoolInv /\ PoolInv' /\ WakeInv /\ StrandInv /\ [Next]_vars => StrandInv'
  BY <1>2, <1>3, Actors, WorkerStrandsNobody, SubmitStrandsNobody, ClosersStrandNobody
<1>5. PoolInv /\ StrandInv => NobodyIsStranded
  <2> SUFFICES ASSUME PoolInv, StrandInv, state # "running",
                      \A c \in Closer : close[c].pc \notin {"wake", "undoWake"}
               PROVE  Cardinality({w \in Worker : worker[w].pc = "gate"}) <= permits
    BY DEF NobodyIsStranded
  <2> DEFINE AtGate == {w \in Worker : worker[w].pc = "gate"}
  <2>1. PICK c \in Closer : Cardinality(Living) <= permits + Cardinality(Cover) + Pending(c)
    BY DEF StrandInv, Enough
  <2>2. Pending(c) = 0
    BY DEF Pending
  <2>3. AtGate \cap Cover = {} /\ AtGate \cup Cover \subseteq Living
    BY DEF Cover, Living, Provided
  <2>4. IsFiniteSet(Living) /\ IsFiniteSet(AtGate) /\ IsFiniteSet(Cover)
    <3>1. IsFiniteSet(Worker)
      BY FS_Interval, PoolAssumption DEF Worker
    <3> QED BY <3>1, FS_Subset DEF Living, Cover
  <2>5. Cardinality(AtGate) + Cardinality(Cover) <= Cardinality(Living)
    <3>1. Cardinality(AtGate \cup Cover) <= Cardinality(Living)
      BY <2>3, <2>4, FS_Subset
    <3>2. Cardinality(AtGate \cup Cover)
             = Cardinality(AtGate) + Cardinality(Cover) - Cardinality(AtGate \cap Cover)
      BY <2>4, FS_Union
    <3>3. Cardinality(AtGate \cap Cover) = 0
      BY <2>3, FS_EmptySet
    <3>4. Cardinality(AtGate) \in Nat /\ Cardinality(Cover) \in Nat
      BY <2>4, FS_CardinalityType
    <3> QED BY <3>1, <3>2, <3>3, <3>4
  <2>6. Cardinality(AtGate) \in Nat /\ Cardinality(Cover) \in Nat /\ Cardinality(Living) \in Nat
        /\ permits \in Nat
    BY <2>4, FS_CardinalityType DEF PoolInv, TypeOK
  <2> QED BY <2>1, <2>2, <2>5, <2>6
<1> QED BY <1>1, <1>4, <1>5, WakeupsHold, PTL DEF Spec

-----------------------------------------------------------------------------
(* The pool as its documentation uses it: the owner alone closes it, and   *)
(* no submit overlaps a close.                                             *)

Orderly == ~RacingSubmits /\ Closer = {Owner}

\* No job comes once the owner closes the pool, an abort is not overridden, and who leaves
\* a draining pool has seen its queue empty.
Drained ==
    /\ close[Owner].pc # "idle" \/ state # "running" => \A j \in Job : submit[j] # "enqueue"
    /\ close[Owner].pc = "store" /\ close[Owner].mode = "drain" => state # "abort"
    /\ state = "drain" => \A w \in Worker : /\ worker[w].pc = "inspect" => worker[w].seen # "abort"
                                            /\ worker[w].pc = "exit" => count = 0

LEMMA DrainedStays ==
  ASSUME Orderly, PoolInv, WakeInv, Drained, [Next]_vars
  PROVE  Drained'
<1>0. TypeOK /\ Owner \in Closer /\ \A c \in Closer : c = Owner
  BY PoolAssumption DEF PoolInv, Orderly
<1>1. CASE CreateWorker
  <2>1. PICK w \in Worker : /\ worker[w].pc = "none"
                            /\ WorkerBecomes(w, "gate", worker[w].seen, worker[w].job)
    BY <1>0, <1>1, CreateRecords DEF PoolInv
  <2>2. UNCHANGED <<state, count, submit>> /\ close[Owner].pc = "create"
        /\ (close' = close \/ CloserMoves(Owner, "idle"))
    BY <1>0, <1>1, CreateRecords DEF CreateWorker, ring, PoolInv
  <2> QED BY <2>1, <2>2 DEF Drained, CloserMoves, CloserBecomes, WorkerBecomes
<1>2. ASSUME NEW w \in Worker, WorkerStep(w) PROVE Drained'
  <2>1. UNCHANGED <<submit, close, state>> /\ (count' = count \/ WorkerTakes(w))
    BY <1>2 DEF WorkerStep, WorkerGate, WorkerLock, WorkerLeaves, WorkerTakes, WorkerRuns,
           WorkerCompletes, WorkerNotActive, WorkerChecks, WorkerSignals, ring
  <2>2. CASE WorkerLeaves(w)
    <3>1. WorkerBecomes(w, IF worker[w].seen = "running" THEN "gate" ELSE "exit",
                        worker[w].seen, worker[w].job)
      BY <1>0, <2>2, WorkerRecords
    <3>2. /\ worker[w].pc = "inspect" /\ (worker[w].seen = "abort" \/ count = 0)
          /\ count' = count
      BY <2>2 DEF WorkerLeaves, ring
    <3> QED BY <2>1, <3>1, <3>2 DEF Drained, WorkerBecomes
  <2>3. CASE WorkerTakes(w)
    <3>1. WorkerBecomes(w, "run", worker[w].seen, slots[head])
      BY <1>0, <2>3, WorkerRecords
    <3>2. count # 0
      BY <1>0, <2>3 DEF WorkerTakes, TypeOK
    <3> QED BY <2>1, <3>1, <3>2 DEF Drained, WorkerBecomes
  <2>4. CASE WorkerLock(w)
    <3>1. WorkerBecomes(w, "inspect", state, worker[w].job) /\ count' = count
      BY <1>0, <2>4, WorkerRecords DEF WorkerLock, ring
    <3> QED BY <2>1, <3>1 DEF Drained, WorkerBecomes
  <2>5. CASE \/ WorkerGate(w) \/ WorkerRuns(w) \/ WorkerCompletes(w) \/ WorkerNotActive(w)
             \/ WorkerChecks(w) \/ WorkerSignals(w)
    <3>1. PICK p \in {"lock", "complete", "leave", "check", "signal", "gate"} :
             \E s, j : WorkerBecomes(w, p, s, j)
      BY <1>0, <2>5, WorkerRecords
    <3>2. count' = count
      BY <2>5 DEF WorkerGate, WorkerRuns, WorkerCompletes, WorkerNotActive, WorkerChecks,
                  WorkerSignals, ring
    <3> QED BY <2>1, <3>1, <3>2 DEF Drained, WorkerBecomes
  <2> QED BY <1>2, <2>2, <2>3, <2>4, <2>5 DEF WorkerStep
<1>3. ASSUME NEW j \in Job, SubmitBegin(j) \/ SubmitStep(j) PROVE Drained'
  <2>1. UNCHANGED <<worker, close, state>>
    BY <1>3 DEF SubmitBegin, SubmitStep, SubmitFull, SubmitEnqueue, SubmitSignal
  <2>2. submit \in [Job -> SubmitPc]
    BY <1>0 DEF TypeOK
  <2>3. CASE SubmitBegin(j)
    <3>1. close[Owner].pc = "idle" /\ count' = count
      BY <1>0, <2>3 DEF SubmitBegin, MaySubmit, Orderly, ring
    <3>2. state # "running" => submit' = [submit EXCEPT ![j] = "closed"]
      BY <2>3 DEF SubmitBegin
    <3> QED BY <2>1, <2>2, <3>1, <3>2 DEF Drained
  <2>4. CASE SubmitFull(j) \/ SubmitSignal(j)
    BY <2>1, <2>2, <2>4 DEF Drained, SubmitFull, SubmitSignal, ring
  <2>5. CASE SubmitEnqueue(j)
    <3>1. close[Owner].pc = "idle" /\ state = "running"
      BY <2>5 DEF SubmitEnqueue, Drained
    <3> QED BY <2>1, <3>1 DEF Drained
  <2> QED BY <1>3, <2>3, <2>4, <2>5 DEF SubmitStep
<1>4. CASE CloserSteps
  <2>1. UNCHANGED <<worker, submit, count>>
    BY <1>4, ClosersKeep
  <2>2. CASE CreateFails
    <3>1. CloserMoves(Owner, "undoWake")
      BY <1>0, <2>2, CloserRecords
    <3> QED BY <2>1, <2>2, <3>1 DEF CreateFails, Drained, CloserMoves, CloserBecomes
  <2>3. CASE CallDestroy \/ CloseDrain(Owner) \/ CloseAbort(Owner)
    <3>1. UNCHANGED state /\ \A j \in Job : submit[j] # "enqueue"
      BY <2>3 DEF CallDestroy, CloseDrain, CloseAbort, MayClose, Submitting, Orderly
    <3>2. close'[Owner].pc = "store" /\ close'[Owner].mode = "drain" => state # "abort"
      BY <1>0, <2>3, CloserRecords DEF CloserBecomes
    <3> QED BY <2>1, <3>1, <3>2 DEF Drained
  <2>4. CASE CloseStore(Owner)
    <3>1. close'[Owner].pc = "wake" /\ state' = close[Owner].mode /\ close[Owner].pc = "store"
      BY <1>0, <2>4, CloserRecords DEF CloserBecomes, CloseStore
    <3>2. state' = "drain" => state \in {"running", "drain"}
      BY <1>0, <3>1 DEF Drained, TypeOK, State
    <3>3. state = "running" => \A w \in Worker : /\ worker[w].pc # "exit"
                                                 /\ worker[w].pc = "inspect" =>
                                                        worker[w].seen = "running"
      BY DEF WakeInv, Running
    <3> QED BY <2>1, <3>1, <3>2, <3>3 DEF Drained
  <2>5. CASE OwnerMoves \/ CloseTimesOut(Owner) \/ (CloseStep(Owner) /\ ~CloseStore(Owner))
    <3>1. UNCHANGED state /\ close[Owner].pc \notin {"idle", "store"}
      BY <2>5 DEF OwnerMoves, UndoWake, UndoDestroy, DestroyFails, DestroyPool, CloseStep, CloseTimesOut,
           CloseWake, CloseReadQueue, CloseReadActive, CloseSleeps, CloseFinal
    <3>2. close'[Owner].pc # "store"
      <4>1. close[Owner].pc \in {"undoWake", "wake"} => close[Owner].left > 0
        BY <1>0 DEF PoolInv, LeftCounts
      <4> QED BY <1>0, <2>5, <4>1, CloserRecords DEF OwnerMoves, CloseStep, CloserMoves,
                 CloserBecomes, UndoWake, CloseWake
    <3> QED BY <2>1, <3>1, <3>2 DEF Drained
  <2> QED BY <1>0, <1>4, <2>2, <2>3, <2>4, <2>5 DEF CloserSteps
<1>5. CASE JoinStep
  BY <1>5, JoinsTouchNothing DEF Untouched, Drained
<1> QED BY <1>1, <1>2, <1>3, <1>4, <1>5, Actors

\* Of an orderly pool: once every worker has left it draining, its queue is empty.
THEOREM DrainsLeaveNoJob == Orderly /\ Spec => []DrainLeavesNoJob
<1>1. Init => Drained
  BY DEF Init, Drained
<1>2. Orderly /\ PoolInv /\ WakeInv /\ Drained /\ [Next]_vars => Drained'
  BY DrainedStays
<1>3. Orderly /\ [Next]_vars => Orderly'
  BY DEF Orderly
<1>4. Drained => DrainLeavesNoJob
  <2>1. 1 \in Worker
    BY PoolAssumption DEF Worker
  <2> QED BY <2>1 DEF Drained, DrainLeavesNoJob
<1> QED BY <1>1, <1>2, <1>3, <1>4, WakeupsHold, PTL DEF Spec
=============================================================================
