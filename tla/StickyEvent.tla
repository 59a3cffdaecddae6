---------------------------- MODULE StickyEvent -----------------------------
(***************************************************************************)
(* What an ic_broadcast promises (ic_concurrency_signal.h, "BROADCAST      *)
(* API"): an event that is set for everybody, those who wait and those who *)
(* come later, until it is cleared.  Every call takes effect at one        *)
(* instant between its start and its return: a wait succeeds at an instant *)
(* at which the event is set, and fails, when its condition variable does, *)
(* only at one at which it is not.  IcBroadcast implements this.           *)
(***************************************************************************)
CONSTANT Thread   \* the threads that share the event

VARIABLES life,   \* between a successful init and destroy
          event,  \* the event is set: 1, or 0
          call    \* the call each thread is in, and whether it took effect

eventVars == <<life, event, call>>

Init == life = "none" /\ event = 0 /\ call = [t \in Thread |-> "none"]

Move(t, from, to) == /\ life = "ready"
                     /\ call[t] = from
                     /\ call' = [call EXCEPT ![t] = to]
                     /\ UNCHANGED life

\* A creation that fails leaves no event.
Create(to) == life = "none" /\ life' = to /\ event' = 0 /\ UNCHANGED call

Discard == /\ life = "ready"
           /\ \A t \in Thread : call[t] = "none"
           /\ life' = "none"
           /\ UNCHANGED <<event, call>>

Begin(t) == \E to \in {"waiting", "setting", "clearing"} :
               Move(t, "none", to) /\ UNCHANGED event

Pass(t)  == event = 1 /\ Move(t, "waiting", "passed") /\ UNCHANGED event
Fail(t)  == event = 0 /\ Move(t, "waiting", "failed") /\ UNCHANGED event
Set(t)   == Move(t, "setting", "done") /\ event' = 1
Clear(t) == Move(t, "clearing", "done") /\ event' = 0

Return(t) == \E from \in {"passed", "failed", "done"} :
                Move(t, from, "none") /\ UNCHANGED event

Next == \/ Create("ready") \/ Create("none") \/ Discard
        \/ \E t \in Thread : Begin(t) \/ Pass(t) \/ Fail(t) \/ Set(t) \/ Clear(t) \/ Return(t)

Spec == Init /\ [][Next]_eventVars
=============================================================================
