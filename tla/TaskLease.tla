------------------------------ MODULE TaskLease ------------------------------
(***************************************************************************)
(* What the claim protocol promises to the rest of the factory, without    *)
(* rows, agents, retries or recovery: a task is a lease.  One executor at  *)
(* a time holds it, only the holder can bring the task to its successful   *)
(* end, the holder may let go of it (failure, crash, abandonment), and a   *)
(* task that is done is never handed out again.                            *)
(***************************************************************************)
CONSTANTS Tasks, Executors, None

VARIABLES
  holder,   \* who holds each task, or None
  done      \* the tasks that were completed

Init ==
  /\ holder = [t \in Tasks |-> None]
  /\ done = {}

Acquire(t, e) ==
  /\ holder[t] = None
  /\ t \notin done
  /\ holder' = [holder EXCEPT ![t] = e]
  /\ UNCHANGED done

Complete(t, e) ==
  /\ holder[t] = e
  /\ t \notin done
  /\ done' = done \cup {t}
  /\ UNCHANGED holder

Release(t, e) ==
  /\ holder[t] = e
  /\ holder' = [holder EXCEPT ![t] = None]
  /\ UNCHANGED done

Next == \E t \in Tasks, e \in Executors :
          Acquire(t, e) \/ Complete(t, e) \/ Release(t, e)

Spec == Init /\ [][Next]_<<holder, done>>
=============================================================================
