---------------------------- MODULE CountingGate ----------------------------
(***************************************************************************)
(* What an ic_gate promises (ic_concurrency_signal.h, "GATE API"): a       *)
(* counting semaphore with unit increments, whose counter is a uint32_t.   *)
(* Every call takes effect at one instant between its start and its        *)
(* return: a signal adds one permit, a wait that succeeds takes one, a     *)
(* wait whose condition variable reports an error takes none.  The mutex,  *)
(* the condition variable and their queues are not part of the promise.    *)
(* IcGate implements this specification.                                   *)
(***************************************************************************)
EXTENDS Naturals

CONSTANTS Thread,        \* the threads that share the gate
          PermitModulus  \* 2^32 in the code: the counter is a uint32_t

VARIABLES life,          \* between a successful init and destroy
          permits,       \* the stored permits
          call           \* the call each thread is in, and whether it took effect

gateVars == <<life, permits, call>>

Call == {"none", "waiting", "passed", "failed", "signalling", "posted"}

TypeOK == /\ life \in {"none", "ready"}
          /\ permits \in 0..(PermitModulus - 1)
          /\ call \in [Thread -> Call]

Init == life = "none" /\ permits = 0 /\ call = [t \in Thread |-> "none"]

Move(t, from, to) == /\ life = "ready"
                     /\ call[t] = from
                     /\ call' = [call EXCEPT ![t] = to]
                     /\ UNCHANGED life

Create == life = "none" /\ life' = "ready" /\ permits' = 0 /\ UNCHANGED call

\* A creation that fails leaves no gate.
CreateFails == life = "none" /\ permits' = 0 /\ UNCHANGED <<life, call>>

Discard == /\ life = "ready"
           /\ \A t \in Thread : call[t] = "none"
           /\ life' = "none"
           /\ UNCHANGED <<permits, call>>

BeginWait(t)   == Move(t, "none", "waiting") /\ UNCHANGED permits
BeginSignal(t) == Move(t, "none", "signalling") /\ UNCHANGED permits

\* The instant a signal takes effect: permits is an unsigned 32-bit integer.
Post(t) == /\ Move(t, "signalling", "posted")
           /\ permits' = (permits + 1) % PermitModulus

\* The instant a wait takes effect.
Pass(t) == /\ permits > 0
           /\ Move(t, "waiting", "passed")
           /\ permits' = permits - 1

Fail(t) == Move(t, "waiting", "failed") /\ UNCHANGED permits

Return(t) == \E c \in {"passed", "failed", "posted"} :
                Move(t, c, "none") /\ UNCHANGED permits

Next == \/ Create
        \/ CreateFails
        \/ Discard
        \/ \E t \in Thread : \/ BeginWait(t) \/ BeginSignal(t)
                             \/ Post(t) \/ Pass(t) \/ Fail(t) \/ Return(t)

Spec == Init /\ [][Next]_gateVars
=============================================================================
