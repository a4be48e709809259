------------------------------- MODULE LossyQueue -------------------------------
(***************************************************************************)
(* What a Circular buffer promises when its operations do not overlap: a   *)
(* queue of capacity N whose Put always succeeds and drops the oldest      *)
(* element when the queue is full.  Reopening the buffer keeps the queue.  *)
(***************************************************************************)
EXTENDS Integers, Sequences

CONSTANTS
    N,          \* capacity
    Values,     \* elements
    Nothing     \* "no element was read"

VARIABLES
    queue,      \* the elements not read yet, oldest first
    result,     \* the result of the last read
    straddling  \* input: the lap counter wrapped between reader and writer

queueVars == <<queue, result>>

Init ==
    /\ queue = <<>>
    /\ result = Nothing

Put(v) ==
    /\ queue' = IF Len(queue) < N THEN Append(queue, v)
                ELSE Append(Tail(queue), v)
    /\ UNCHANGED result

Get ==
    /\ queue # <<>>
    /\ result' = Head(queue)
    /\ queue' = Tail(queue)

GetNothing ==
    /\ queue = <<>>
    /\ result' = Nothing
    /\ UNCHANGED queue

\* The one case in which reopening loses the content.
Forget ==
    /\ straddling
    /\ queue' = <<>>
    /\ UNCHANGED result

Next ==
    \/ \E v \in Values : Put(v)
    \/ Get
    \/ GetNothing
    \/ Forget

Spec == Init /\ [][Next]_queueVars
===============================================================================
