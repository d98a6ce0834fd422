---------------------------- MODULE RWLockProofs ----------------------------
(***************************************************************************)
(* The lock of include/rwlock.h is correct for any finite set of threads:  *)
(* cnt counts its holders, writers are exclusive, and the exchanges        *)
(* implement the abstract lock.  Every step of a thread is either quiet or *)
(* one of four changes of the holders (StepEffect); the rest follows.      *)
(***************************************************************************)
EXTENDS RWLock, FiniteSetTheorems, TLAPS

Typed ==
  /\ cnt \in Int
  /\ x  \in [Threads -> Int]
  /\ pc \in [Threads -> {"out", "rl_load", "rl_cas", "rt_load", "rt_cas",
                         "wl_load", "wl_cas", "wt_load", "wt_cas",
                         "reading", "writing"}]

\* The inductive invariant: a successful exchange preserves the meaning of
\* cnt only because x holds a value its mode allows.
IInv == Typed /\ LoadsAreSafe /\ CntCountsHolders

\* The effects a step can have on cnt and on the holders.
Quiet == UNCHANGED <<cnt, Readers, Writers>>
TakesRead(t)   == /\ t \notin Readers /\ cnt >= 0 /\ cnt' = cnt + 1
                  /\ Readers' = Readers \cup {t} /\ Writers' = Writers
TakesWrite(t)  == /\ cnt = 0 /\ cnt' = -1
                  /\ Readers' = Readers /\ Writers' = Writers \cup {t}
LeavesRead(t)  == /\ t \in Readers /\ cnt' = cnt - 1
                  /\ Readers' = Readers \ {t} /\ Writers' = Writers
LeavesWrite(t) == /\ t \in Writers /\ cnt' = 0
                  /\ Readers' = Readers /\ Writers' = Writers \ {t}
Effect(t) == Quiet \/ TakesRead(t) \/ TakesWrite(t) \/ LeavesRead(t) \/ LeavesWrite(t)

\* A step of any thread keeps the types and the safety of the loaded values
\* and has one of the effects above.
LEMMA StepEffect ==
  ASSUME Typed, LoadsAreSafe, NEW t \in Threads,
         \/ read_lock(t) \/ read_trylock(t) \/ write_lock(t) \/ write_trylock(t)
         \/ Step(t)
         \/ read_unlock(t) \/ write_unlock(t)
  PROVE  Typed' /\ LoadsAreSafe' /\ Effect(t)
<1> USE DEF Typed, LoadsAreSafe, Goto
<1>1. CASE read_lock(t) \/ read_trylock(t) \/ write_lock(t) \/ write_trylock(t)
  <2>1. Typed' /\ LoadsAreSafe'
    BY <1>1 DEF read_lock, read_trylock, write_lock, write_trylock, Call
  <2>2. Quiet
    BY <1>1 DEF read_lock, read_trylock, write_lock, write_trylock, Call, Quiet, Readers, Writers
  <2> QED BY <2>1, <2>2 DEF Effect
<1>2. CASE read_lock_load(t) \/ read_trylock_load(t)
  <2>1. Typed' /\ LoadsAreSafe'
    BY <1>2 DEF read_lock_load, read_trylock_load, Load
  <2>2. Quiet
    BY <1>2 DEF read_lock_load, read_trylock_load, Load, Quiet, Readers, Writers
  <2> QED BY <2>1, <2>2 DEF Effect
<1>3. CASE write_lock_load(t) \/ write_trylock_load(t)
  <2>1. Typed' /\ LoadsAreSafe'
    BY <1>3 DEF write_lock_load, write_trylock_load, Load
  <2>2. Quiet
    BY <1>3 DEF write_lock_load, write_trylock_load, Load, Quiet, Readers, Writers
  <2> QED BY <2>1, <2>2 DEF Effect
<1>4. CASE read_lock_cas(t) \/ read_trylock_cas(t)
  <2>1. Typed' /\ LoadsAreSafe'
    BY <1>4 DEF read_lock_cas, read_trylock_cas, Cas
  <2>2. Quiet \/ TakesRead(t)
    BY <1>4 DEF read_lock_cas, read_trylock_cas, Cas, Quiet, TakesRead, Readers, Writers
  <2> QED BY <2>1, <2>2 DEF Effect
<1>5. CASE write_lock_cas(t) \/ write_trylock_cas(t)
  <2>1. Typed' /\ LoadsAreSafe'
    BY <1>5 DEF write_lock_cas, write_trylock_cas, Cas
  <2>2. Quiet \/ TakesWrite(t)
    BY <1>5 DEF write_lock_cas, write_trylock_cas, Cas, Quiet, TakesWrite, Readers, Writers
  <2> QED BY <2>1, <2>2 DEF Effect
<1>6. CASE read_unlock(t)
  <2>1. Typed' /\ LoadsAreSafe'
    BY <1>6 DEF read_unlock
  <2>2. LeavesRead(t)
    BY <1>6 DEF read_unlock, LeavesRead, Readers, Writers
  <2> QED BY <2>1, <2>2 DEF Effect
<1>7. CASE write_unlock(t)
  <2>1. Typed' /\ LoadsAreSafe'
    BY <1>7 DEF write_unlock
  <2>2. LeavesWrite(t)
    BY <1>7 DEF write_unlock, LeavesWrite, Readers, Writers
  <2> QED BY <2>1, <2>2 DEF Effect
<1> QED BY <1>1, <1>2, <1>3, <1>4, <1>5, <1>6, <1>7 DEF Step

\* The same for a step of the specification, stuttering included.
LEMMA NextEffect ==
  ASSUME Typed, LoadsAreSafe, [Next]_vars
  PROVE  Typed' /\ LoadsAreSafe' /\ (Quiet \/ \E t \in Threads : Effect(t))
<1>1. CASE UNCHANGED vars
  BY <1>1 DEF vars, Typed, LoadsAreSafe, Quiet, Readers, Writers
<1>2. CASE Next
  <2>1. PICK t \in Threads :
          \/ read_lock(t) \/ read_trylock(t) \/ write_lock(t) \/ write_trylock(t)
          \/ Step(t)
          \/ read_unlock(t) \/ write_unlock(t)
    BY <1>2 DEF Next
  <2> QED BY <2>1, StepEffect
<1> QED BY <1>1, <1>2

\* The readers are a finite set, so adding and removing one changes their
\* number by one.
LEMMA ReadersFinite ==
  /\ IsFiniteSet(Readers) /\ Cardinality(Readers) \in Nat
  /\ Cardinality(Readers) <= Cardinality(Threads) /\ Cardinality(Threads) \in Nat
<1>1. Readers \in SUBSET Threads
  BY DEF Readers
<1> QED BY <1>1, ThreadsAssumption, FS_Subset, FS_CardinalityType

\* cnt keeps counting the holders.
LEMMA EffectPreservesCount ==
  ASSUME Typed, CntCountsHolders, NEW t \in Threads, Effect(t)
  PROVE  CntCountsHolders'
<1>1. /\ Readers \in SUBSET Threads /\ Writers \in SUBSET Threads
      /\ Readers' \in SUBSET Threads /\ Writers' \in SUBSET Threads
  BY DEF Readers, Writers
<1>2. IsFiniteSet(Readers) /\ Cardinality(Readers) \in Nat
  BY ReadersFinite
<1>3. CASE Quiet
  BY <1>3 DEF Quiet, CntCountsHolders
<1>4. CASE TakesRead(t)
  <2>1. Writers = {} /\ cnt = Cardinality(Readers)
    BY <1>4 DEF TakesRead, CntCountsHolders
  <2>2. Cardinality(Readers \cup {t}) = Cardinality(Readers) + 1
    BY <1>2, <1>4, FS_AddElement DEF TakesRead
  <2> QED BY <1>4, <2>1, <2>2 DEF TakesRead, CntCountsHolders
<1>5. CASE TakesWrite(t)
  <2>1. Writers = {} /\ Cardinality(Readers) = 0
    BY <1>5 DEF TakesWrite, CntCountsHolders
  <2>2. Readers = {}
    BY <1>2, <2>1, FS_EmptySet
  <2> QED BY <1>5, <2>1, <2>2 DEF TakesWrite, CntCountsHolders
<1>6. CASE LeavesRead(t)
  <2>1. Writers = {} /\ cnt = Cardinality(Readers)
    BY <1>6 DEF LeavesRead, CntCountsHolders
  <2>2. Cardinality(Readers \ {t}) = Cardinality(Readers) - 1
    BY <1>2, <1>6, FS_RemoveElement DEF LeavesRead
  <2> QED BY <1>6, <2>1, <2>2 DEF LeavesRead, CntCountsHolders
<1>7. CASE LeavesWrite(t)
  <2>1. Writers = {t} /\ Readers = {}
    BY <1>7 DEF LeavesWrite, CntCountsHolders
  <2>2. Writers' = {} /\ Readers' = {} /\ cnt' = Cardinality(Readers')
    BY <1>7, <2>1, FS_EmptySet DEF LeavesWrite
  <2> QED BY <2>2 DEF CntCountsHolders
<1> QED BY <1>3, <1>4, <1>5, <1>6, <1>7 DEF Effect

LEMMA InitHolds == Init => IInv
<1> SUFFICES ASSUME Init PROVE IInv
  OBVIOUS
<1>1. Readers = {} /\ Writers = {}
  BY DEF Init, Readers, Writers
<1> QED BY <1>1, FS_EmptySet DEF Init, IInv, Typed, LoadsAreSafe, CntCountsHolders

\* IInv is an invariant of the lock.
THEOREM Invariance == Spec => []IInv
<1>1. IInv /\ [Next]_vars => IInv'
  <2> SUFFICES ASSUME IInv, [Next]_vars PROVE IInv'
    OBVIOUS
  <2>1. Typed' /\ LoadsAreSafe' /\ (Quiet \/ \E t \in Threads : Effect(t))
    BY NextEffect DEF IInv
  <2>2. CASE Quiet
    BY <2>1, <2>2 DEF Quiet, IInv, CntCountsHolders
  <2>3. CASE \E t \in Threads : Effect(t)
    BY <2>1, <2>3, EffectPreservesCount DEF IInv
  <2> QED BY <2>1, <2>2, <2>3
<1> QED BY InitHolds, <1>1, PTL DEF Spec

\* cnt stays between -1 and the number of threads, whatever they do.
THEOREM TypeCorrect == Spec => []TypeOK
<1>1. IInv => TypeOK
  <2> SUFFICES ASSUME IInv PROVE TypeOK
    OBVIOUS
  <2>1. cnt \in -1 .. Cardinality(Threads)
    BY ReadersFinite DEF IInv, CntCountsHolders
  <2> QED BY <2>1 DEF IInv, Typed, TypeOK
<1> QED BY <1>1, Invariance, PTL

\* The comment of rwlock_t holds of every state, for callers that release
\* what they took.
THEOREM CountCorrect == Spec => []CntCountsHolders
<1>1. IInv => CntCountsHolders
  BY DEF IInv
<1> QED BY <1>1, Invariance, PTL

\* A writer is alone in the lock.
THEOREM MutualExclusion == Spec => []Exclusion
<1>1. IInv => Exclusion
  BY DEF IInv, CntCountsHolders, Exclusion, Readers, Writers
<1> QED BY <1>1, Invariance, PTL

\* The lock implements SharedLock: only the exchanges and the unlocks are
\* visible there, everything else stutters.
THEOREM Refinement == Spec => RefinesSharedLock
<1>1. Init => Abstract!Init
  BY DEF Init, Abstract!Init, Readers, Writers
<1>2. IInv /\ [Next]_vars => [Abstract!Next]_(Abstract!vars)
  <2> SUFFICES ASSUME IInv, [Next]_vars PROVE [Abstract!Next]_(Abstract!vars)
    OBVIOUS
  <2>1. Quiet \/ \E t \in Threads : Effect(t)
    BY NextEffect DEF IInv
  <2>2. CASE Quiet
    BY <2>2 DEF Quiet, Abstract!vars
  <2>3. ASSUME NEW t \in Threads, Effect(t), ~Quiet
        PROVE  Abstract!Next
    <3>1. CASE TakesRead(t)
      <4>1. Writers = {}
        BY <3>1 DEF TakesRead, IInv, CntCountsHolders
      <4> QED BY <3>1, <4>1 DEF TakesRead, Abstract!Next, Abstract!EnterRead
    <3>2. CASE TakesWrite(t)
      <4>1. Writers = {} /\ Cardinality(Readers) = 0
        BY <3>2 DEF TakesWrite, IInv, CntCountsHolders
      <4>2. Readers = {}
        BY <4>1, ReadersFinite, FS_EmptySet
      <4> QED BY <3>2, <4>1, <4>2 DEF TakesWrite, Abstract!Next, Abstract!EnterWrite
    <3>3. CASE LeavesRead(t)
      BY <3>3 DEF LeavesRead, Abstract!Next, Abstract!LeaveRead
    <3>4. CASE LeavesWrite(t)
      <4>1. Writers = {t}
        BY <3>4 DEF LeavesWrite, IInv, CntCountsHolders
      <4> QED BY <3>4, <4>1 DEF LeavesWrite, Abstract!Next, Abstract!LeaveWrite
    <3> QED BY <2>3, <3>1, <3>2, <3>3, <3>4 DEF Effect
  <2> QED BY <2>1, <2>2, <2>3
<1> QED BY <1>1, <1>2, Invariance, PTL DEF Spec, RefinesSharedLock, Abstract!Spec
=============================================================================
