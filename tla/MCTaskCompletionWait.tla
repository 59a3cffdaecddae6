----------------------- MODULE MCTaskCompletionWait -----------------------
(* The task_completion_wait instance for TLC: constants in the .cfg file. *)
EXTENDS TaskCompletionWait

\* Arguments on both sides of every comparison: a negative one, zero, one that the
\* backoff doubles up to the cap, one above the cap.
MCRetries  == {-1, 0, 1, 3, 40, 100}
MCTimeouts == {-1, 0, 1, 7, 120, 250}
=============================================================================
