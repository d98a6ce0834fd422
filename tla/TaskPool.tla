------------------------------ MODULE TaskPool ------------------------------
(***************************************************************************)
(* What a thread pool promises, without threads: a task is put into one    *)
(* free slot, is started there at most once, and leaves the slot when it   *)
(* has returned; the pool is torn down only when every slot is free.       *)
(* ThreadPool.tla implements it.                                           *)
(***************************************************************************)
EXTENDS Naturals

CONSTANTS Slots, Tasks, NoTask

VARIABLES slot,     \* slot[w]: the task that occupies w
          assigned, \* the tasks that were ever put into a slot
          started,  \* the tasks that were ever started
          open      \* the pool accepts tasks

vars == <<slot, assigned, started, open>>

Init == /\ slot = [w \in Slots |-> NoTask]
        /\ assigned = {}
        /\ started = {}
        /\ open = FALSE

\* The pool becomes usable.
Open == ~open /\ assigned = {} /\ open' = TRUE /\ UNCHANGED <<slot, assigned, started>>

\* A task that was never assigned occupies a free slot.
Assign(t, w) == /\ open
                /\ t \notin assigned
                /\ slot[w] = NoTask
                /\ slot' = [slot EXCEPT ![w] = t]
                /\ assigned' = assigned \cup {t}
                /\ UNCHANGED <<started, open>>

\* The task of a slot starts, for the first and only time.
Start(w) == /\ slot[w] \in Tasks \ started
            /\ started' = started \cup {slot[w]}
            /\ UNCHANGED <<slot, assigned, open>>

\* A started task leaves its slot.
Finish(w) == /\ slot[w] \in started
             /\ slot' = [slot EXCEPT ![w] = NoTask]
             /\ UNCHANGED <<assigned, started, open>>

\* The pool is torn down; no task is lost.
Close == /\ open
         /\ \A w \in Slots : slot[w] = NoTask
         /\ assigned = started
         /\ open' = FALSE
         /\ UNCHANGED <<slot, assigned, started>>

Next == \/ Open
        \/ Close
        \/ \E w \in Slots : Start(w) \/ Finish(w) \/ \E t \in Tasks : Assign(t, w)

Spec == Init /\ [][Next]_vars
=============================================================================
