----------------------------- MODULE SharedLock -----------------------------
(***************************************************************************)
(* What a read-write lock promises: many readers or one writer.            *)
(* RWLock.tla implements it.                                               *)
(***************************************************************************)
CONSTANT Threads

VARIABLES readers, writers  \* the threads inside, by mode

vars == <<readers, writers>>

Init == readers = {} /\ writers = {}

EnterRead(t) == /\ writers = {} /\ t \notin readers
                /\ readers' = readers \cup {t}
                /\ UNCHANGED writers

EnterWrite(t) == /\ readers = {} /\ writers = {}
                 /\ writers' = {t}
                 /\ UNCHANGED readers

LeaveRead(t) == /\ t \in readers
                /\ readers' = readers \ {t}
                /\ UNCHANGED writers

LeaveWrite(t) == /\ writers = {t}
                 /\ writers' = {}
                 /\ UNCHANGED readers

Next == \E t \in Threads :
          EnterRead(t) \/ EnterWrite(t) \/ LeaveRead(t) \/ LeaveWrite(t)

Spec == Init /\ [][Next]_vars
=============================================================================
