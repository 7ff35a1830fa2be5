------------------------------ MODULE TaskQueue ------------------------------
(***************************************************************************)
(* What RosExecutorQueue promises to the code that submits work, with the  *)
(* threads, the mutex, the guard condition and the ROS executor left out:  *)
(* a FIFO queue of tasks that one drain at a time runs in order, until it  *)
(* is closed.  Closing never revokes the task that is running, every task  *)
(* still waiting fails with the shutdown error, and so does every task     *)
(* submitted afterwards (ros_executor_queue.hpp, the comments of the class *)
(* and of submit() and shutdown()).                                        *)
(***************************************************************************)
EXTENDS Sequences, Naturals

CONSTANTS Tasks,   \* the units of work that may be submitted
          NoTask   \* no task is running

VARIABLES waiting,  \* tasks accepted and not started, in submission order
          current,  \* the task being run, or NoTask
          doomed,   \* tasks that the close found waiting, not failed yet
          closed,   \* shutdown() has taken effect
          known,    \* the tasks submitted so far
          result    \* what each task's future holds

tqVars == <<waiting, current, doomed, closed, known, result>>

Range(s) == {s[i] : i \in DOMAIN s}

TQInit ==
  /\ waiting = <<>>
  /\ current = NoTask
  /\ doomed = {}
  /\ closed = FALSE
  /\ known = {}
  /\ result = [k \in Tasks |-> "none"]

Accept(k) ==
  /\ ~closed
  /\ k \notin known
  /\ known' = known \union {k}
  /\ waiting' = Append(waiting, k)
  /\ UNCHANGED <<current, doomed, closed, result>>

Reject(k) ==
  /\ closed
  /\ k \notin known
  /\ known' = known \union {k}
  /\ result' = [result EXCEPT ![k] = "shutdown"]
  /\ UNCHANGED <<waiting, current, doomed, closed>>

Start ==
  /\ current = NoTask
  /\ waiting # <<>>
  /\ current' = Head(waiting)
  /\ waiting' = Tail(waiting)
  /\ UNCHANGED <<doomed, closed, known, result>>

Finish ==
  /\ current # NoTask
  /\ result[current] = "none"
  /\ result' = [result EXCEPT ![current] = "value"]
  /\ current' = NoTask
  /\ UNCHANGED <<waiting, doomed, closed, known>>

Close ==
  /\ ~closed
  /\ closed' = TRUE
  /\ doomed' = Range(waiting)
  /\ waiting' = <<>>
  /\ UNCHANGED <<current, known, result>>

Fail(k) ==
  /\ k \in doomed
  /\ result[k] = "none"
  /\ result' = [result EXCEPT ![k] = "shutdown"]
  /\ doomed' = doomed \ {k}
  /\ UNCHANGED <<waiting, current, closed, known>>

TQNext ==
  \/ \E k \in Tasks : Accept(k) \/ Reject(k) \/ Fail(k)
  \/ Start
  \/ Finish
  \/ Close

TQSpec == TQInit /\ [][TQNext]_tqVars
=============================================================================
