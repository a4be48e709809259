--------------------------------- MODULE Waiter ---------------------------------
(***************************************************************************)
(* brasa::chronus::Waiter with the clock and the sleep function that it is *)
(* given, for one waiter per process.  Time passes between the steps of    *)
(* the processes: a step takes none, but may come later than it could, by  *)
(* what the scheduler takes and by what a sleep lasts too long.            *)
(*                                                                         *)
(* Only differences of instants matter, so that the state holds how far    *)
(* each instant is from now, and no clock.                                 *)
(***************************************************************************)
EXTENDS Integers

CONSTANTS
    Processes,
    Units,      \* units_of_time_ of each process that has a waiter
    Lags        \* bounds on the lateness of each process, one of which holds

ASSUME WaiterAssumption ==
    /\ Units \in [DOMAIN Units -> Nat \ {0}] /\ DOMAIN Units \subseteq Processes
    /\ Lags \subseteq [Processes -> Nat \ {0}]

VARIABLES
    deadline,   \* end_of_time_ of each waiter, from now
    pause,      \* how long until a process can take its next step; since when it
                \* could have, if negative
    lag         \* each step is late by lag[p] at most

Waiters == DOMAIN Units

WaiterInit ==
    /\ deadline = [p \in Waiters |-> 0]
    /\ lag \in Lags

\* Mutation of SleepSize: the period where a tenth of it is meant.
SleepSizeWhole(p) == Units[p]

\* sleep_size_
SleepSize(p) == IF Units[p] >= 10 THEN Units[p] \div 10 ELSE 1

\* Mutation of ResetWaiter: the period starts where the last one ended.
ResetWaiterDrifts(p) == deadline' = [deadline EXCEPT ![p] = @ + Units[p]]

\* The constructor and reset().
ResetWaiter(p) == deadline' = [deadline EXCEPT ![p] = Units[p]]

Elapsed(p) == deadline[p] <= 0

\* p takes a step, after which it can go on at once or when it has slept.
Runs(p, sleep) ==
    /\ pause[p] <= 0
    /\ pause' = [pause EXCEPT ![p] = sleep]
    /\ UNCHANGED lag

\* One round of the loop of wait().
WaitOver(p) == Elapsed(p) /\ Runs(p, 0) /\ UNCHANGED deadline
WaitLonger(p) == ~Elapsed(p) /\ Runs(p, SleepSize(p)) /\ UNCHANGED deadline

\* Time passes, unless one of those that run is as late as it can be.  A deadline
\* that is over by more than a period stays there.
Tick(running) ==
    /\ \A p \in running : pause[p] > -lag[p]
    /\ pause' = [p \in Processes |->
                    IF p \in running THEN pause[p] - 1 ELSE pause[p]]
    /\ deadline' = [p \in Waiters |->
                       IF p \in running /\ deadline[p] > -Units[p]
                       THEN deadline[p] - 1 ELSE deadline[p]]
    /\ UNCHANGED lag
===============================================================================
