------------------------------- MODULE RWLock -------------------------------
(***************************************************************************)
(* The read-write lock of include/rwlock.h (update_lock of server and      *)
(* client), at the grain of its atomic operations: one step loads cnt into *)
(* the caller's x, a later one compares and exchanges.  Its callers here   *)
(* release what they took; ChannelUpdate.tla has the callers of server.c.  *)
(***************************************************************************)
EXTENDS Integers, FiniteSets

CONSTANTS Threads,
          WeakCAS  \* a weak compare-exchange may fail although cnt = x

ASSUME ThreadsAssumption == IsFiniteSet(Threads)
ASSUME WeakCASAssumption == WeakCAS \in BOOLEAN

VARIABLES cnt, \* rwl->cnt
          x,   \* x[t]: the local x
          pc   \* pc[t]: where t is in the API, or which lock it holds

vars == <<cnt, x, pc>>

Init == /\ cnt = 0
        /\ x  = [t \in Threads |-> 0]
        /\ pc = [t \in Threads |-> "out"]

Goto(t, l) == pc' = [pc EXCEPT ![t] = l]

\* t calls the function whose first step is l.
Call(t, l) == /\ pc[t] = "out"
              /\ Goto(t, l)
              /\ UNCHANGED <<cnt, x>>

read_lock(t)     == Call(t, "rl_load")
read_trylock(t)  == Call(t, "rt_load")
write_lock(t)    == Call(t, "wl_load")
write_trylock(t) == Call(t, "wt_load")

\* The load at from: go on to the exchange when ok, else to busy.
Load(t, from, ok, cas, busy) ==
  /\ pc[t] = from
  /\ x' = [x EXCEPT ![t] = cnt]
  /\ Goto(t, IF ok THEN cas ELSE busy)
  /\ UNCHANGED cnt

\* rwlock_read_lock retries while a writer holds the lock, rwlock_read_trylock
\* returns -EBUSY.
read_lock_load(t)    == Load(t, "rl_load", cnt >= 0, "rl_cas", "rl_load")
read_trylock_load(t) == Load(t, "rt_load", cnt >= 0, "rt_cas", "out")

\* rwlock_write_lock retries while anyone holds the lock,
\* rwlock_write_trylock returns -EBUSY.
write_lock_load(t)    == Load(t, "wl_load", cnt = 0, "wl_cas", "wl_load")
write_trylock_load(t) == Load(t, "wt_load", cnt = 0, "wt_cas", "out")

\* Mutant: a store instead of a compare-exchange.
CasBlindStore(t, from, new, won, lost) ==
  /\ pc[t] = from
  /\ cnt' = new /\ Goto(t, won)
  /\ UNCHANGED x

\* Mutant: success is never set.
CasNeverWins(t, from, new, won, lost) ==
  /\ pc[t] = from
  /\ Goto(t, lost) /\ UNCHANGED <<cnt, x>>

\* The exchange at from: cnt becomes new if it is still x.
Cas(t, from, new, won, lost) ==
  /\ pc[t] = from
  /\ \/ cnt = x[t] /\ cnt' = new /\ Goto(t, won)
     \/ cnt # x[t] /\ cnt' = cnt /\ Goto(t, lost)
     \/ WeakCAS /\ cnt' = cnt /\ Goto(t, lost)
  /\ UNCHANGED x

read_lock_cas(t)     == Cas(t, "rl_cas", x[t] + 1, "reading", "rl_load")
read_trylock_cas(t)  == Cas(t, "rt_cas", x[t] + 1, "reading", "rt_load")
write_lock_cas(t)    == Cas(t, "wl_cas", -1, "writing", "wl_load")
write_trylock_cas(t) == Cas(t, "wt_cas", -1, "writing", "out")

\* Mutant: the reader releases like a writer.
unlock_stores_zero(t) == /\ pc[t] = "reading"
                         /\ cnt' = 0
                         /\ Goto(t, "out")
                         /\ UNCHANGED x

read_unlock(t) == /\ pc[t] = "reading"
                  /\ cnt' = cnt - 1
                  /\ Goto(t, "out")
                  /\ UNCHANGED x

write_unlock(t) == /\ pc[t] = "writing"
                   /\ cnt' = 0
                   /\ Goto(t, "out")
                   /\ UNCHANGED x

\* The steps a thread takes once it has called a function of the lock.
Step(t) == \/ read_lock_load(t) \/ read_trylock_load(t)
           \/ write_lock_load(t) \/ write_trylock_load(t)
           \/ read_lock_cas(t) \/ read_trylock_cas(t)
           \/ write_lock_cas(t) \/ write_trylock_cas(t)

Next == \E t \in Threads :
          \/ read_lock(t) \/ read_trylock(t) \/ write_lock(t) \/ write_trylock(t)
          \/ Step(t)
          \/ read_unlock(t) \/ write_unlock(t)

Spec == Init /\ [][Next]_vars

\* A thread inside the lock's code keeps running, and a weak exchange does not
\* fail for no reason for ever: where exchanges can succeed again and again,
\* one of them does.
FairSpec == /\ Spec
            /\ \A t \in Threads : WF_vars(Step(t))
            /\ SF_vars(\E t \in Threads : Step(t) /\ cnt' # cnt)

-----------------------------------------------------------------------------
Readers == {t \in Threads : pc[t] = "reading"}
Writers == {t \in Threads : pc[t] = "writing"}

TypeOK ==
  /\ cnt \in -1 .. Cardinality(Threads)
  /\ x  \in [Threads -> Int]
  /\ pc \in [Threads -> {"out", "rl_load", "rl_cas", "rt_load", "rt_cas",
                         "wl_load", "wl_cas", "wt_load", "wt_cas",
                         "reading", "writing"}]

\* rwlock.h: "cnt is -1 when write lock is held, and > 0 when read locks are
\* held" - exactly: it counts the readers, or is -1 for the one writer.
CntCountsHolders ==
  \/ Writers = {} /\ cnt = Cardinality(Readers)
  \/ \E t \in Threads : Writers = {t} /\ Readers = {} /\ cnt = -1

\* An exchange that can still succeed was prepared from a value its mode
\* allows, however long ago it was loaded.
LoadsAreSafe ==
  \A t \in Threads : /\ pc[t] \in {"rl_cas", "rt_cas"} => x[t] >= 0
                     /\ pc[t] \in {"wl_cas", "wt_cas"} => x[t] = 0

\* rwlock.h: "allows multiple readers in parallel, but only one writer".
Exclusion ==
  \A t \in Writers : \A u \in Threads \ {t} : pc[u] \notin {"reading", "writing"}

\* The exchanges implement the abstract lock.
Abstract == INSTANCE SharedLock WITH readers <- Readers, writers <- Writers
RefinesSharedLock == Abstract!Spec

\* No livelock of the retry loops: while someone waits for the lock, someone
\* gets it. (No thread is promised its own turn: readers can starve a writer.)
SomeoneGetsIn ==
  (\E t \in Threads : pc[t] \in {"rl_load", "rl_cas", "wl_load", "wl_cas"})
    ~> (Readers \cup Writers # {})
=============================================================================
