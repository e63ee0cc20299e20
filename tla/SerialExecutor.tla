--------------------------- MODULE SerialExecutor ---------------------------
(***************************************************************************)
(* What ThreadPool promises its callers: tasks run one at a time, in the   *)
(* order of their submission, each exactly once; and addTask does not      *)
(* return while a task is running.                                         *)
(***************************************************************************)
EXTENDS Sequences

CONSTANTS Tasks, NoTask

VARIABLES queue, current

Init == queue = <<>> /\ current = NoTask

Submit(t) == /\ current = NoTask
             /\ queue' = Append(queue, t) /\ UNCHANGED current

Start == /\ current = NoTask /\ queue # <<>>
         /\ current' = Head(queue) /\ queue' = Tail(queue)

End == /\ current # NoTask
       /\ current' = NoTask /\ UNCHANGED queue

Next == (\E t \in Tasks : Submit(t)) \/ Start \/ End

Spec == Init /\ [][Next]_<<queue, current>>
=============================================================================
