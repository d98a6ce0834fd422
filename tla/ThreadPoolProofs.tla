-------------------------- MODULE ThreadPoolProofs --------------------------
(***************************************************************************)
(* The pool is correct for any number of workers and any set of tasks,     *)
(* failures while it is created included.  IInv (ThreadPool.tla) says in   *)
(* which of four phases every worker is, and what its mailbox and pipes    *)
(* hold in each; the properties follow from it.                            *)
(***************************************************************************)
EXTENDS ThreadPool, TLAPS

\* The four phases of a worker.
Phase(w) == Idle(w) \/ Woken(w) \/ Busy(w) \/ Ahead(w)

\* A step changes nothing of the launcher, and of the workers only w.
OnlyWorker(w) ==
  /\ UNCHANGED <<initialized, alive, mainVars, accepted, last>>
  /\ \A v \in Workers \ {w} :
       /\ state'[v] = state[v] /\ f'[v] = f[v] /\ arg'[v] = arg[v] /\ ret'[v] = ret[v]
       /\ m2w'[v] = m2w[v] /\ w2m'[v] = w2m[v]
       /\ wpc'[v] = wpc[v] /\ wf'[v] = wf[v] /\ warg'[v] = warg[v]

\* A step of w leaves the phase of every other worker alone.
LEMMA OtherWorkers ==
  ASSUME IInv, NEW w \in Workers, OnlyWorker(w), calls' = calls
  PROVE  \A v \in Workers \ {w} : Phase(v)' /\ (alive'[v] <=> wpc'[v] # "none")
<1> SUFFICES ASSUME NEW v \in Workers \ {w}
             PROVE  Phase(v)' /\ (alive'[v] <=> wpc'[v] # "none")
  OBVIOUS
<1>1. Phase(v) /\ (alive[v] <=> wpc[v] # "none")
  BY DEF IInv, WorkerInv, Phase
<1>2. Launching(v)' <=> Launching(v)
  BY DEF OnlyWorker, mainVars, Launching
<1>3. Current(v)' = Current(v)
  BY <1>2 DEF OnlyWorker, mainVars, Current
<1>4. alive'[v] <=> wpc'[v] # "none"
  BY <1>1 DEF OnlyWorker
<1>5. CASE Idle(v)
  BY <1>2, <1>4, <1>5 DEF OnlyWorker, mainVars, Phase, Idle, Launching
<1>6. CASE Woken(v)
  BY <1>2, <1>4, <1>6 DEF OnlyWorker, mainVars, Phase, Woken, Launching
<1>7. CASE Busy(v)
  BY <1>2, <1>3, <1>4, <1>7 DEF OnlyWorker, mainVars, Phase, Busy, Launching
<1>8. CASE Ahead(v)
  BY <1>2, <1>4, <1>8 DEF OnlyWorker, mainVars, Phase, Ahead, Launching
<1> QED BY <1>1, <1>4, <1>5, <1>6, <1>7, <1>8 DEF Phase

\* A step of w keeps the history invariant unless w enters its task.
LEMMA HistoryFrame ==
  ASSUME IInv, NEW w \in Workers, OnlyWorker(w), calls' = calls,
         wpc[w] \in {"spin", "call"} => wpc'[w] \in {"spin", "call"}
  PROVE  HistoryInv'
<1>1. \A v \in Workers : Current(v)' = Current(v)
  BY DEF OnlyWorker, mainVars, Current, Launching
<1>2. ASSUME NEW t \in accepted', calls'[t] # 1
      PROVE  \E v \in Workers : Current(v)' = t /\ wpc'[v] \in {"spin", "call"}
  <2>1. PICK v \in Workers : Current(v) = t /\ wpc[v] \in {"spin", "call"}
    BY <1>2 DEF OnlyWorker, IInv, HistoryInv
  <2>2. wpc'[v] \in {"spin", "call"}
    BY <2>1 DEF OnlyWorker
  <2> QED BY <1>1, <2>1, <2>2
<1>3. /\ \A v \in Workers : last'[v] \in accepted' \cup {NULL}
      /\ \A u, v \in Workers : last'[u] = last'[v] => u = v \/ last'[u] = NULL
      /\ \A t \in Tasks : calls'[t] <= 1
      /\ \A t \in Tasks \ accepted' : calls'[t] = 1 => mpc' = "ack" /\ task' = t
  BY DEF OnlyWorker, mainVars, IInv, HistoryInv
<1> QED BY <1>2, <1>3 DEF HistoryInv


\* The steps that create the pool, and those of a launch or a wait that touch
\* no worker, preserve IInv.
LEMMA LauncherQuiet ==
  ASSUME IInv,
         \/ create_worker_thread \/ create_thread_pool_returns
         \/ create_pipe_fails \/ pthread_create_fails
         \/ launch_check \/ wait_worker_thread
         \/ destroy_begin \/ destroy_wait \/ stop_missing_thread
         \/ \E t \in Tasks : launch_any(t) \/ \E w \in Workers : launch_on(t, w)
         \/ \E w \in Workers : wait_begin(w)
  PROVE  IInv'
<1> USE SizeAssumption, NullAssumption
<1> USE DEF IInv, TypeOK, WorkerInv, LauncherInv, HistoryInv, Workers,
            Idle, Woken, Busy, Ahead, Current, Launching,
            mainVars, mailbox, workerVars, historyVars
<1>1. CASE create_worker_thread
  <2>1. TypeOK'
    BY <1>1 DEF create_worker_thread
  <2>2. WorkerInv'
    <3>1. /\ mpc = "create" /\ mpc' = "create" /\ idx \in Workers
          /\ \A w \in Workers : Idle(w)
      BY <1>1 DEF create_worker_thread
    <3>2. \A w \in Workers : /\ wpc'[w] = IF w = idx THEN "wait" ELSE wpc[w]
                             /\ alive'[w] = IF w = idx THEN TRUE ELSE alive[w]
      BY <1>1, <3>1 DEF create_worker_thread
    <3>3. \A w \in Workers : Idle(w)'
      BY <1>1, <3>1, <3>2 DEF create_worker_thread
    <3>4. \A w \in Workers : alive'[w] <=> wpc'[w] # "none"
      <4>1. \A w \in Workers : alive[w] <=> wpc[w] # "none"
        BY ONLY IInv DEF IInv, WorkerInv
      <4> QED BY ONLY <3>2, <4>1
    <3> HIDE DEF Idle, Woken, Busy, Ahead
    <3> QED BY ONLY <3>3, <3>4 DEF WorkerInv
  <2>3. LauncherInv'
    BY <1>1 DEF create_worker_thread
  <2>4. HistoryInv'
    BY <1>1 DEF create_worker_thread
  <2> QED BY <2>1, <2>2, <2>3, <2>4 DEF IInv
<1>2. CASE create_thread_pool_returns
  <2>1. TypeOK'
    BY <1>2 DEF create_thread_pool_returns
  <2>2. WorkerInv'
    BY <1>2 DEF create_thread_pool_returns
  <2>3. LauncherInv'
    BY <1>2 DEF create_thread_pool_returns
  <2>4. HistoryInv'
    BY <1>2 DEF create_thread_pool_returns
  <2> QED BY <2>1, <2>2, <2>3, <2>4 DEF IInv
<1>3. CASE create_pipe_fails
  <2>1. TypeOK'
    BY <1>3 DEF create_pipe_fails
  <2>2. WorkerInv'
    BY <1>3 DEF create_pipe_fails
  <2>3. LauncherInv'
    BY <1>3 DEF create_pipe_fails
  <2>4. HistoryInv'
    BY <1>3 DEF create_pipe_fails
  <2> QED BY <2>1, <2>2, <2>3, <2>4 DEF IInv
<1>4. CASE pthread_create_fails
  <2>1. TypeOK'
    BY <1>4 DEF pthread_create_fails
  <2>2. WorkerInv'
    BY <1>4 DEF pthread_create_fails
  <2>3. LauncherInv'
    BY <1>4 DEF pthread_create_fails
  <2>4. HistoryInv'
    BY <1>4 DEF pthread_create_fails
  <2> QED BY <2>1, <2>2, <2>3, <2>4 DEF IInv
<1>5. CASE launch_check
  <2>1. TypeOK'
    BY <1>5 DEF launch_check
  <2>2. WorkerInv'
    BY <1>5 DEF launch_check
  <2>3. LauncherInv'
    BY <1>5 DEF launch_check
  <2>4. HistoryInv'
    BY <1>5 DEF launch_check
  <2> QED BY <2>1, <2>2, <2>3, <2>4 DEF IInv
<1>6. CASE wait_worker_thread
  <2>1. TypeOK'
    BY <1>6 DEF wait_worker_thread
  <2>2. WorkerInv'
    BY <1>6 DEF wait_worker_thread
  <2>3. LauncherInv'
    BY <1>6 DEF wait_worker_thread
  <2>4. HistoryInv'
    BY <1>6 DEF wait_worker_thread
  <2> QED BY <2>1, <2>2, <2>3, <2>4 DEF IInv
<1>7. CASE destroy_begin
  <2>1. TypeOK'
    BY <1>7 DEF destroy_begin
  <2>2. WorkerInv'
    BY <1>7 DEF destroy_begin
  <2>3. LauncherInv'
    BY <1>7 DEF destroy_begin
  <2>4. HistoryInv'
    BY <1>7 DEF destroy_begin
  <2> QED BY <2>1, <2>2, <2>3, <2>4 DEF IInv
<1>8. CASE destroy_wait
  <2>1. TypeOK'
    BY <1>8 DEF destroy_wait
  <2>2. WorkerInv'
    BY <1>8 DEF destroy_wait
  <2>3. LauncherInv'
    BY <1>8 DEF destroy_wait
  <2>4. HistoryInv'
    BY <1>8 DEF destroy_wait
  <2> QED BY <2>1, <2>2, <2>3, <2>4 DEF IInv
<1>9. CASE stop_missing_thread
  <2>1. TypeOK'
    BY <1>9 DEF stop_missing_thread
  <2>2. WorkerInv'
    BY <1>9 DEF stop_missing_thread
  <2>3. LauncherInv'
    BY <1>9 DEF stop_missing_thread
  <2>4. HistoryInv'
    BY <1>9 DEF stop_missing_thread
  <2> QED BY <2>1, <2>2, <2>3, <2>4 DEF IInv
<1>10. ASSUME NEW t \in Tasks, launch_any(t) PROVE IInv'
  <2>1. TypeOK'
    BY <1>10 DEF launch_any
  <2>2. WorkerInv'
    BY <1>10 DEF launch_any
  <2>3. LauncherInv'
    BY <1>10 DEF launch_any
  <2>4. HistoryInv'
    BY <1>10 DEF launch_any
  <2> QED BY <2>1, <2>2, <2>3, <2>4 DEF IInv
<1>11. ASSUME NEW t \in Tasks, NEW w \in Workers, launch_on(t, w) PROVE IInv'
  <2>1. TypeOK'
    BY <1>11 DEF launch_on
  <2>2. WorkerInv'
    BY <1>11 DEF launch_on
  <2>3. LauncherInv'
    BY <1>11 DEF launch_on
  <2>4. HistoryInv'
    BY <1>11 DEF launch_on
  <2> QED BY <2>1, <2>2, <2>3, <2>4 DEF IInv
<1>12. ASSUME NEW w \in Workers, wait_begin(w) PROVE IInv'
  <2>1. TypeOK'
    BY <1>12 DEF wait_begin
  <2>2. WorkerInv'
    BY <1>12 DEF wait_begin
  <2>3. LauncherInv'
    BY <1>12 DEF wait_begin
  <2>4. HistoryInv'
    BY <1>12 DEF wait_begin
  <2> QED BY <2>1, <2>2, <2>3, <2>4 DEF IInv
<1> QED BY <1>1, <1>2, <1>3, <1>4, <1>5, <1>6, <1>7, <1>8, <1>9, <1>10, <1>11, <1>12 

\* The scan, the stores of a launch, the two halves of wake_worker_thread and
\* the cancellation of a worker preserve IInv.
LEMMA LauncherActs ==
  ASSUME IInv,
         \/ get_one_idle_thread \/ launch_set_arg \/ launch_set_f
         \/ wake_worker_thread \/ wake_read_ack \/ stop_worker_thread
  PROVE  IInv'
<1> USE SizeAssumption, NullAssumption
<1> USE DEF IInv, TypeOK, WorkerInv, LauncherInv, HistoryInv, Workers,
            Idle, Woken, Busy, Ahead, Current, Launching,
            mainVars, mailbox, workerVars, historyVars
<1>1. CASE launch_set_arg
  <2>1. TypeOK'
    BY <1>1 DEF launch_set_arg
  <2>2. WorkerInv'
    BY <1>1 DEF launch_set_arg
  <2>3. LauncherInv'
    BY <1>1 DEF launch_set_arg
  <2>4. HistoryInv'
    BY <1>1 DEF launch_set_arg
  <2> QED BY <2>1, <2>2, <2>3, <2>4
<1>2. CASE launch_set_f
  <2>1. TypeOK'
    BY <1>2 DEF launch_set_f
  <2>2. WorkerInv'
    BY <1>2 DEF launch_set_f
  <2>3. LauncherInv'
    BY <1>2 DEF launch_set_f
  <2>4. HistoryInv'
    BY <1>2 DEF launch_set_f
  <2> QED BY <2>1, <2>2, <2>3, <2>4
<1>3. CASE wake_read_ack
  <2> USE <1>3 DEF wake_read_ack, Accept
  <2>1. TypeOK'
    OBVIOUS
  <2>2. WorkerInv'
    OBVIOUS
  <2>3. LauncherInv'
    OBVIOUS
  <2>4. /\ idx \in Workers /\ task \in Tasks \ accepted
        /\ Busy(idx) \/ Ahead(idx)
        /\ accepted' = accepted \cup {task} /\ last' = [last EXCEPT ![idx] = task]
        /\ calls' = calls /\ wpc' = wpc /\ mpc' = "idle"
    OBVIOUS
  <2>5. \A v \in Workers : Current(v)' = Current(v)
    BY <2>4
  <2>6. ASSUME NEW t \in accepted', calls'[t] # 1
        PROVE  \E v \in Workers : Current(v)' = t /\ wpc'[v] \in {"spin", "call"}
    <3>1. CASE t = task
      <4>1. Current(idx) = t /\ wpc[idx] \in {"spin", "call"}
        BY <2>4, <2>6, <3>1
      <4> QED BY <2>4, <2>5, <4>1
    <3>2. CASE t # task
      <4>1. PICK v \in Workers : Current(v) = t /\ wpc[v] \in {"spin", "call"}
        BY <2>4, <2>6, <3>2
      <4> QED BY <2>4, <2>5, <4>1
    <3> QED BY <3>1, <3>2
  <2>7. \A t \in Tasks \ accepted' : calls'[t] # 1
    BY <2>4
  <2>8. \A u, v \in Workers : last'[u] = last'[v] => u = v \/ last'[u] = NULL
    BY <2>4
  <2>9. HistoryInv'
    BY ONLY <2>4, <2>6, <2>7, <2>8, IInv DEF IInv, HistoryInv, TypeOK
  <2> QED BY <2>1, <2>2, <2>3, <2>9
<1>4. CASE get_one_idle_thread /\ state[idx] = "WAIT"
  <2>0. /\ mpc = "scan" /\ mpc' = "check" /\ idx' = idx
        /\ UNCHANGED <<initialized, alive, mailbox, workerVars, task, historyVars>>
    BY <1>4 DEF get_one_idle_thread
  <2>1. TypeOK'
    BY <1>4, <2>0
  <2>2. WorkerInv'
    BY <1>4, <2>0
  <2>3. LauncherInv'
    BY <1>4, <2>0
  <2>4. HistoryInv'
    BY <1>4, <2>0
  <2> QED BY <2>1, <2>2, <2>3, <2>4
<1>5. CASE get_one_idle_thread /\ state[idx] # "WAIT" /\ idx + 1 < Size
  <2>0. /\ mpc = "scan" /\ mpc' = "scan" /\ idx' = idx + 1 /\ idx' \in Workers
        /\ UNCHANGED <<initialized, alive, mailbox, workerVars, task, historyVars>>
    BY <1>5 DEF get_one_idle_thread
  <2>1. TypeOK'
    BY <1>5, <2>0
  <2>2. WorkerInv'
    BY <1>5, <2>0
  <2>3. LauncherInv'
    BY <1>5, <2>0
  <2>4. HistoryInv'
    BY <1>5, <2>0
  <2> QED BY <2>1, <2>2, <2>3, <2>4
<1>6. CASE get_one_idle_thread /\ state[idx] # "WAIT" /\ ~(idx + 1 < Size)
  <2>0. /\ mpc = "scan" /\ mpc' = "idle" /\ idx' = idx
        /\ UNCHANGED <<initialized, alive, mailbox, workerVars, task, historyVars>>
    BY <1>6 DEF get_one_idle_thread
  <2>1. TypeOK'
    BY <1>6, <2>0
  <2>2. WorkerInv'
    BY <1>6, <2>0
  <2>3. LauncherInv'
    BY <1>6, <2>0
  <2>4. HistoryInv'
    BY <1>6, <2>0
  <2> QED BY <2>1, <2>2, <2>3, <2>4
<1>7. CASE wake_worker_thread
  <2>1. TypeOK'
    BY <1>7 DEF wake_worker_thread
  <2>2. LauncherInv'
    BY <1>7 DEF wake_worker_thread
  <2>3. Idle(idx) /\ idx \in Workers
    BY <1>7 DEF wake_worker_thread
  <2>4. Idle(idx)' /\ (alive'[idx] <=> wpc'[idx] # "none")
    BY <1>7, <2>3 DEF wake_worker_thread
  <2>5. ASSUME NEW v \in Workers, v # idx
        PROVE  Phase(v)' /\ (alive'[v] <=> wpc'[v] # "none")
    BY <1>7, <2>5 DEF wake_worker_thread, Phase
  <2>6. WorkerInv'
    BY <1>7, <2>4, <2>5 DEF wake_worker_thread, Phase
  <2>7. \A v \in Workers : v # idx => Current(v)' = Current(v)
    BY <1>7 DEF wake_worker_thread
  <2>8. ASSUME NEW t \in accepted, calls[t] # 1
        PROVE  \E v \in Workers : Current(v)' = t /\ wpc'[v] \in {"spin", "call"}
    <3>1. PICK v \in Workers : Current(v) = t /\ wpc[v] \in {"spin", "call"}
      BY <2>8
    <3>2. v # idx /\ wpc'[v] = wpc[v]
      BY <1>7, <2>3, <3>1 DEF wake_worker_thread
    <3> QED BY <2>7, <3>1, <3>2
  <2>9. HistoryInv'
    BY ONLY <1>7, <2>8, IInv DEF wake_worker_thread, IInv, LauncherInv, HistoryInv, historyVars
  <2> QED BY <2>1, <2>2, <2>6, <2>9
<1>8. CASE stop_worker_thread
  <2>1. Idle(idx) /\ idx \in Workers /\ ~Launching(idx)
    BY <1>8 DEF stop_worker_thread
  <2>2. CASE idx + 1 < Size
    <3>1. /\ mpc' = "dwait" /\ idx' = idx + 1 /\ initialized' = initialized
          /\ alive' = [alive EXCEPT ![idx] = FALSE] /\ wpc' = [wpc EXCEPT ![idx] = "none"]
          /\ mpc = "dcancel"
          /\ UNCHANGED <<mailbox, wf, warg, task, historyVars>>
      BY <1>8, <2>2 DEF stop_worker_thread
    <3>2. TypeOK'
      BY <2>1, <2>2, <3>1
    <3>3. WorkerInv'
      BY <2>1, <3>1
    <3>4. LauncherInv'
      BY <2>1, <3>1
    <3>5. /\ \A v \in Workers : Current(v)' = Current(v)
          /\ \A v \in Workers : wpc[v] \in {"spin", "call"} => wpc'[v] = wpc[v]
      BY <2>1, <3>1
    <3>6. HistoryInv'
      BY ONLY <3>1, <3>5, IInv DEF IInv, HistoryInv, historyVars
    <3> QED BY <3>2, <3>3, <3>4, <3>6
  <2>3. CASE ~(idx + 1 < Size)
    <3>1. /\ mpc' = "destroyed" /\ idx' = idx /\ initialized' = FALSE
          /\ alive' = [alive EXCEPT ![idx] = FALSE] /\ wpc' = [wpc EXCEPT ![idx] = "none"]
          /\ mpc = "dcancel"
          /\ UNCHANGED <<mailbox, wf, warg, task, historyVars>>
      BY <1>8, <2>3 DEF stop_worker_thread
    <3>2. TypeOK'
      BY <2>1, <3>1
    <3>3. WorkerInv'
      BY <2>1, <3>1
    <3>4. LauncherInv'
      BY <2>1, <3>1
    <3>5. /\ \A v \in Workers : Current(v)' = Current(v)
          /\ \A v \in Workers : wpc[v] \in {"spin", "call"} => wpc'[v] = wpc[v]
      BY <2>1, <3>1
    <3>6. HistoryInv'
      BY ONLY <3>1, <3>5, IInv DEF IInv, HistoryInv, historyVars
    <3> QED BY <3>2, <3>3, <3>4, <3>6
  <2> QED BY <2>2, <2>3
<1> QED BY <1>1, <1>2, <1>3, <1>4, <1>5, <1>6, <1>7, <1>8

\* Every step of a worker outside worker_call preserves IInv: it moves w from
\* one phase to the next and the launcher does not notice.
LEMMA WorkerActs ==
  ASSUME IInv, NEW w \in Workers,
         \/ worker_thread_wait_command(w) \/ worker_set_running(w)
         \/ worker_thread_ack_command(w) \/ worker_load_f(w) \/ worker_return(w)
         \/ worker_clear_f(w) \/ worker_clear_arg(w) \/ worker_set_wait(w)
  PROVE  IInv'
<1> USE SizeAssumption, NullAssumption
<1>1. CASE worker_thread_wait_command(w)
  <2> USE <1>1 DEF worker_thread_wait_command, WorkerGoto
  <2>1. OnlyWorker(w) /\ calls' = calls
    BY DEF IInv, TypeOK, OnlyWorker, mailbox, mainVars, historyVars
  <2>2. Idle(w) /\ Launching(w)
    BY DEF IInv, WorkerInv, Idle, Woken, Busy, Ahead, Launching
  <2>3. TypeOK'
    BY DEF IInv, TypeOK, Workers, mailbox, mainVars, historyVars
  <2>4. Woken(w)' /\ (alive'[w] <=> wpc'[w] # "none")
    BY <2>2 DEF IInv, TypeOK, WorkerInv, LauncherInv, HistoryInv, Phase, Idle, Woken, Busy, Ahead,
               Current, Launching, mailbox, mainVars, historyVars
  <2>5. WorkerInv'
    BY <2>1, <2>4, OtherWorkers DEF WorkerInv, Phase
  <2>6. LauncherInv'
    BY <2>1, <2>2 DEF IInv, LauncherInv, TypeOK, OnlyWorker, Launching, mailbox, mainVars, historyVars
  <2>7. HistoryInv'
    BY <2>1, HistoryFrame DEF IInv, TypeOK
  <2> QED BY <2>3, <2>5, <2>6, <2>7 DEF IInv
<1>2. CASE worker_set_running(w)
  <2> USE <1>2 DEF worker_set_running, WorkerGoto
  <2>1. OnlyWorker(w) /\ calls' = calls
    BY DEF IInv, TypeOK, OnlyWorker, mailbox, mainVars, historyVars
  <2>2. Woken(w)
    BY DEF IInv, WorkerInv, Idle, Woken, Busy, Ahead, Launching
  <2>3. TypeOK'
    BY DEF IInv, TypeOK, Workers, mailbox, mainVars, historyVars
  <2>4. Woken(w)' /\ (alive'[w] <=> wpc'[w] # "none")
    BY <2>2 DEF IInv, TypeOK, WorkerInv, LauncherInv, HistoryInv, Phase, Idle, Woken, Busy, Ahead,
               Current, Launching, mailbox, mainVars, historyVars
  <2>5. WorkerInv'
    BY <2>1, <2>4, OtherWorkers DEF WorkerInv, Phase
  <2>6. LauncherInv'
    BY <2>1, <2>2 DEF IInv, LauncherInv, TypeOK, OnlyWorker, Launching, mailbox, mainVars, historyVars
  <2>7. HistoryInv'
    BY <2>1, HistoryFrame DEF IInv, TypeOK
  <2> QED BY <2>3, <2>5, <2>6, <2>7 DEF IInv
<1>3. CASE worker_thread_ack_command(w)
  <2> USE <1>3 DEF worker_thread_ack_command, WorkerGoto
  <2>1. OnlyWorker(w) /\ calls' = calls
    BY DEF IInv, TypeOK, OnlyWorker, mailbox, mainVars, historyVars
  <2>2. Woken(w)
    BY DEF IInv, WorkerInv, Idle, Woken, Busy, Ahead, Launching
  <2>3. TypeOK'
    BY DEF IInv, TypeOK, Workers, mailbox, mainVars, historyVars
  <2>4. Busy(w)' /\ (alive'[w] <=> wpc'[w] # "none")
    BY <2>2 DEF IInv, TypeOK, WorkerInv, LauncherInv, HistoryInv, Phase, Idle, Woken, Busy, Ahead,
               Current, Launching, mailbox, mainVars, historyVars
  <2>5. WorkerInv'
    BY <2>1, <2>4, OtherWorkers DEF WorkerInv, Phase
  <2>6. LauncherInv'
    BY <2>1, <2>2 DEF IInv, LauncherInv, TypeOK, OnlyWorker, Launching, mailbox, mainVars, historyVars
  <2>7. HistoryInv'
    BY <2>1, HistoryFrame DEF IInv, TypeOK
  <2> QED BY <2>3, <2>5, <2>6, <2>7 DEF IInv
<1>4. CASE worker_load_f(w)
  <2> USE <1>4 DEF worker_load_f, WorkerGoto
  <2>1. OnlyWorker(w) /\ calls' = calls
    BY DEF IInv, TypeOK, OnlyWorker, mailbox, mainVars, historyVars
  <2>2. Busy(w)
    BY DEF IInv, WorkerInv, Idle, Woken, Busy, Ahead, Launching
  <2>3. TypeOK'
    BY DEF IInv, TypeOK, Workers, mailbox, mainVars, historyVars
  <2>4. Busy(w)' /\ (alive'[w] <=> wpc'[w] # "none")
    BY <2>2 DEF IInv, TypeOK, WorkerInv, LauncherInv, HistoryInv, Phase, Idle, Woken, Busy, Ahead,
               Current, Launching, mailbox, mainVars, historyVars
  <2>5. WorkerInv'
    BY <2>1, <2>4, OtherWorkers DEF WorkerInv, Phase
  <2>6. LauncherInv'
    BY <2>1, <2>2 DEF IInv, LauncherInv, TypeOK, OnlyWorker, Launching, mailbox, mainVars, historyVars
  <2>7. HistoryInv'
    BY <2>1, HistoryFrame DEF IInv, TypeOK
  <2> QED BY <2>3, <2>5, <2>6, <2>7 DEF IInv
<1>5. CASE worker_clear_f(w)
  <2> USE <1>5 DEF worker_clear_f, WorkerGoto
  <2>1. OnlyWorker(w) /\ calls' = calls
    BY DEF IInv, TypeOK, OnlyWorker, mailbox, mainVars, historyVars
  <2>2. Busy(w)
    BY DEF IInv, WorkerInv, Idle, Woken, Busy, Ahead, Launching
  <2>3. TypeOK'
    BY DEF IInv, TypeOK, Workers, mailbox, mainVars, historyVars
  <2>4. Busy(w)' /\ (alive'[w] <=> wpc'[w] # "none")
    BY <2>2 DEF IInv, TypeOK, WorkerInv, LauncherInv, HistoryInv, Phase, Idle, Woken, Busy, Ahead,
               Current, Launching, mailbox, mainVars, historyVars
  <2>5. WorkerInv'
    BY <2>1, <2>4, OtherWorkers DEF WorkerInv, Phase
  <2>6. LauncherInv'
    BY <2>1, <2>2 DEF IInv, LauncherInv, TypeOK, OnlyWorker, Launching, mailbox, mainVars, historyVars
  <2>7. HistoryInv'
    BY <2>1, HistoryFrame DEF IInv, TypeOK
  <2> QED BY <2>3, <2>5, <2>6, <2>7 DEF IInv
<1>6. CASE worker_clear_arg(w)
  <2> USE <1>6 DEF worker_clear_arg, WorkerGoto
  <2>1. OnlyWorker(w) /\ calls' = calls
    BY DEF IInv, TypeOK, OnlyWorker, mailbox, mainVars, historyVars
  <2>2. Busy(w)
    BY DEF IInv, WorkerInv, Idle, Woken, Busy, Ahead, Launching
  <2>3. TypeOK'
    BY DEF IInv, TypeOK, Workers, mailbox, mainVars, historyVars
  <2>4. Busy(w)' /\ (alive'[w] <=> wpc'[w] # "none")
    BY <2>2 DEF IInv, TypeOK, WorkerInv, LauncherInv, HistoryInv, Phase, Idle, Woken, Busy, Ahead,
               Current, Launching, mailbox, mainVars, historyVars
  <2>5. WorkerInv'
    BY <2>1, <2>4, OtherWorkers DEF WorkerInv, Phase
  <2>6. LauncherInv'
    BY <2>1, <2>2 DEF IInv, LauncherInv, TypeOK, OnlyWorker, Launching, mailbox, mainVars, historyVars
  <2>7. HistoryInv'
    BY <2>1, HistoryFrame DEF IInv, TypeOK
  <2> QED BY <2>3, <2>5, <2>6, <2>7 DEF IInv
<1>7. CASE worker_return(w)
  <2> USE <1>7 DEF worker_return, WorkerGoto
  <2>1. OnlyWorker(w) /\ calls' = calls
    BY DEF IInv, TypeOK, OnlyWorker, mailbox, mainVars, historyVars
  <2>2. Busy(w)
    BY DEF IInv, WorkerInv, Idle, Woken, Busy, Ahead, Launching
  <2>3. TypeOK'
    BY DEF IInv, TypeOK, Workers, mailbox, mainVars, historyVars
  <2>4. Busy(w)' /\ (alive'[w] <=> wpc'[w] # "none")
    BY <2>2 DEF IInv, TypeOK, WorkerInv, LauncherInv, HistoryInv, Phase, Idle, Woken, Busy, Ahead,
               Current, Launching, mailbox, mainVars, historyVars
  <2>5. WorkerInv'
    BY <2>1, <2>4, OtherWorkers DEF WorkerInv, Phase
  <2>6. LauncherInv'
    BY <2>1, <2>2 DEF IInv, LauncherInv, TypeOK, OnlyWorker, Launching, mailbox, mainVars, historyVars
  <2>7. HistoryInv'
    BY <2>1, HistoryFrame DEF IInv, TypeOK
  <2> QED BY <2>3, <2>5, <2>6, <2>7 DEF IInv
<1>8. CASE worker_set_wait(w)
  <2> USE <1>8 DEF worker_set_wait, WorkerGoto
  <2>1. OnlyWorker(w) /\ calls' = calls
    BY DEF IInv, TypeOK, OnlyWorker, mailbox, mainVars, historyVars
  <2>2. Busy(w)
    BY DEF IInv, WorkerInv, Idle, Woken, Busy, Ahead, Launching
  <2>3. TypeOK'
    BY DEF IInv, TypeOK, Workers, mailbox, mainVars, historyVars
  <2>4. Phase(w)' /\ (alive'[w] <=> wpc'[w] # "none")
    BY <2>2 DEF IInv, TypeOK, WorkerInv, LauncherInv, HistoryInv, Phase, Idle, Woken, Busy, Ahead,
               Current, Launching, mailbox, mainVars, historyVars
  <2>5. WorkerInv'
    BY <2>1, <2>4, OtherWorkers DEF WorkerInv, Phase
  <2>6. LauncherInv'
    BY <2>1, <2>2 DEF IInv, LauncherInv, TypeOK, OnlyWorker, Launching, mailbox, mainVars, historyVars
  <2>7. HistoryInv'
    BY <2>1, HistoryFrame DEF IInv, TypeOK
  <2> QED BY <2>3, <2>5, <2>6, <2>7 DEF IInv
<1> QED BY <1>1, <1>2, <1>3, <1>4, <1>5, <1>6, <1>7, <1>8

\* Two workers never have the same task.
LEMMA CurrentDistinct ==
  ASSUME IInv, NEW v \in Workers, NEW w \in Workers, v # w,
         Current(w) \in Tasks, mpc = "ack" => task \in Tasks \ accepted
  PROVE  Current(v) # Current(w)
BY NullAssumption DEF IInv, HistoryInv, Current, Launching

\* Entering the task preserves IInv: it is the one call of that task.
LEMMA CallActs ==
  ASSUME IInv, NEW w \in Workers, worker_call(w)
  PROVE  IInv'
<1> USE SizeAssumption, NullAssumption DEF worker_call, WorkerGoto
<1>1. /\ Busy(w) /\ wpc[w] = "call" /\ Current(w) \in Tasks /\ wf[w] = Current(w)
      /\ calls[Current(w)] = 0
  BY DEF IInv, WorkerInv, Idle, Woken, Busy, Ahead, Launching
<1>2. OnlyWorker(w) /\ wpc' = [wpc EXCEPT ![w] = "run"]
  BY DEF IInv, TypeOK, OnlyWorker, mailbox, mainVars
<1>3. /\ \A t \in Tasks : calls'[t] = IF t = Current(w) THEN 1 ELSE calls[t]
      /\ calls' \in [Tasks -> Nat]
  BY <1>1 DEF IInv, TypeOK
<1>4. mpc = "ack" => task \in Tasks \ accepted
  BY DEF IInv, LauncherInv
<1>5. \A v \in Workers : Current(v)' = Current(v) /\ (Launching(v)' <=> Launching(v))
  BY <1>2 DEF OnlyWorker, mainVars, Current, Launching
<1>6. \A v \in Workers \ {w} : Current(v) # Current(w)
  BY <1>1, <1>4, CurrentDistinct
<1>7. TypeOK'
  BY <1>3 DEF IInv, TypeOK, Workers, mailbox, mainVars
<1>8. Busy(w)' /\ (alive'[w] <=> wpc'[w] # "none")
  BY <1>1, <1>2, <1>3, <1>5 DEF IInv, TypeOK, WorkerInv, Busy, mailbox, mainVars
<1>9. ASSUME NEW v \in Workers, v # w
      PROVE  Phase(v)' /\ (alive'[v] <=> wpc'[v] # "none")
  <2>1. Launching(v) => task # Current(w) /\ task \in Tasks
    BY <1>4, <1>6, <1>9 DEF Current, Launching
  <2>2. Phase(v) /\ (alive[v] <=> wpc[v] # "none")
    BY DEF IInv, WorkerInv, Phase
  <2>3. alive'[v] <=> wpc'[v] # "none"
    BY <1>2, <1>9, <2>2 DEF OnlyWorker
  <2>4. Idle(v) => Idle(v)'
    BY <1>2, <1>3, <1>9, <2>1 DEF OnlyWorker, mainVars, Idle, Launching
  <2>5. Woken(v) => Woken(v)'
    BY <1>2, <1>3, <1>9, <2>1 DEF OnlyWorker, mainVars, Woken, Launching
  <2>6. Busy(v) => Busy(v)'
    BY <1>2, <1>3, <1>5, <1>6, <1>9 DEF OnlyWorker, mainVars, Busy
  <2>7. Ahead(v) => Ahead(v)'
    BY <1>2, <1>3, <1>9, <2>1 DEF OnlyWorker, mainVars, Ahead, Launching
  <2> QED BY <2>2, <2>3, <2>4, <2>5, <2>6, <2>7 DEF Phase
<1>10. WorkerInv'
  BY <1>8, <1>9 DEF WorkerInv, Phase
<1>11. LauncherInv'
  BY <1>2, <1>1 DEF IInv, LauncherInv, TypeOK, OnlyWorker, mainVars
<1>12. HistoryInv'
  <2>1. ASSUME NEW t \in accepted', calls'[t] # 1
        PROVE  \E v \in Workers : Current(v)' = t /\ wpc'[v] \in {"spin", "call"}
    <3>1. t \in accepted /\ t \in Tasks /\ t # Current(w) /\ calls[t] # 1
      BY <1>2, <1>3, <2>1 DEF OnlyWorker, IInv, TypeOK
    <3>2. PICK v \in Workers : Current(v) = t /\ wpc[v] \in {"spin", "call"}
      BY <3>1 DEF IInv, HistoryInv
    <3>3. v # w
      BY <3>1, <3>2
    <3> QED BY <1>2, <1>5, <3>2, <3>3 DEF OnlyWorker
  <2>2. ASSUME NEW t \in Tasks \ accepted', calls'[t] = 1
        PROVE  mpc' = "ack" /\ task' = t
    <3>1. CASE t = Current(w)
      <4>1. last[w] # t
        BY <1>2, <2>2 DEF OnlyWorker, IInv, HistoryInv
      <4>2. Launching(w) /\ task = t
        BY <3>1, <4>1 DEF Current
      <4> QED BY <1>2, <4>2 DEF OnlyWorker, mainVars, Launching
    <3>2. CASE t # Current(w)
      <4>1. calls[t] = 1 /\ t \in Tasks \ accepted
        BY <1>2, <1>3, <2>2, <3>2 DEF OnlyWorker
      <4> QED BY <1>2, <4>1 DEF IInv, HistoryInv, OnlyWorker, mainVars
    <3> QED BY <3>1, <3>2
  <2>3. /\ \A v \in Workers : last'[v] \in accepted' \cup {NULL}
        /\ \A u, v \in Workers : last'[u] = last'[v] => u = v \/ last'[u] = NULL
    BY <1>2 DEF OnlyWorker, IInv, HistoryInv
  <2>4. \A t \in Tasks : calls'[t] <= 1
    BY <1>3 DEF IInv, HistoryInv
  <2> QED BY <2>1, <2>2, <2>3, <2>4 DEF HistoryInv
<1> QED BY <1>7, <1>10, <1>11, <1>12 DEF IInv

LEMMA InitHolds == Init => IInv
<1> SUFFICES ASSUME Init PROVE IInv
  OBVIOUS
<1> USE SizeAssumption, NullAssumption DEF Init, Workers
<1>1. TypeOK
  <2>1. initialized \in BOOLEAN /\ alive \in [Workers -> BOOLEAN]
    OBVIOUS
  <2>2. accepted \in SUBSET Tasks /\ idx \in 0 .. Size /\ mpc = "create"
    OBVIOUS
  <2> QED BY <2>1, <2>2 DEF TypeOK
<1>2. WorkerInv
  <2> SUFFICES ASSUME NEW w \in Workers PROVE Idle(w) /\ (alive[w] <=> wpc[w] # "none")
    BY DEF WorkerInv
  <2> QED BY DEF Idle, Launching
<1>3. LauncherInv
  BY DEF LauncherInv
<1>4. HistoryInv
  BY DEF HistoryInv
<1> QED BY <1>1, <1>2, <1>3, <1>4 DEF IInv

LEMMA StepHolds == IInv /\ [Next]_vars => IInv'
<1> SUFFICES ASSUME IInv, [Next]_vars PROVE IInv'
  OBVIOUS
<1>1. CASE UNCHANGED vars
  BY <1>1 DEF vars, mailbox, workerVars, mainVars, historyVars, IInv, TypeOK, WorkerInv,
              LauncherInv, HistoryInv, Idle, Woken, Busy, Ahead, Current, Launching
<1>2. CASE Next
  <2>1. CASE \/ LauncherStep \/ create_pipe_fails \/ pthread_create_fails \/ destroy_begin
             \/ \E t \in Tasks : launch_any(t) \/ \E w \in Workers : launch_on(t, w)
             \/ \E w \in Workers : wait_begin(w)
    BY <2>1, LauncherQuiet, LauncherActs DEF LauncherStep
  <2>2. ASSUME NEW w \in Workers, WorkerStep(w) \/ worker_return(w)
        PROVE  IInv'
    BY <2>2, WorkerActs, CallActs DEF WorkerStep
  <2>3. CASE Terminated
    BY <1>1, <2>3 DEF Terminated
  <2> QED BY <1>2, <2>1, <2>2, <2>3 DEF Next
<1> QED BY <1>1, <1>2

\* IInv is an invariant of the pool.
THEOREM Invariance == Spec => []IInv
BY InitHolds, StepHolds, PTL DEF Spec

\* The pool's variables keep their types, and no index leaves the array.
THEOREM TypeCorrect == Spec => []TypeOK
<1>1. IInv => TypeOK
  BY DEF IInv
<1> QED BY <1>1, Invariance, PTL

\* Every task is called at most once, with its own argument, and only if its
\* launch returns 0.
THEOREM CallsMatch == Spec => []CallMatchesLaunch
<1>1. IInv => CallMatchesLaunch
  <2> SUFFICES ASSUME IInv PROVE CallMatchesLaunch
    OBVIOUS
  <2>1. \A w \in Workers : Executing(w) => wf[w] = warg[w] /\ wf[w] # NULL
    BY NullAssumption DEF IInv, WorkerInv, Idle, Woken, Busy, Ahead, Executing
  <2> QED BY <2>1 DEF IInv, HistoryInv, CallMatchesLaunch
<1> QED BY <1>1, Invariance, PTL

\* A task whose launch returned 0 stays in the mailbox of a worker that is on
\* its way to it until it is called.
THEOREM NothingLost == Spec => []AcceptedNotLost
<1>1. IInv => AcceptedNotLost
  <2> SUFFICES ASSUME IInv, NEW t \in accepted, calls[t] = 0
               PROVE  \E w \in Workers :
                        /\ alive[w] /\ state[w] = "RUNNING" /\ wpc[w] \in {"spin", "call"}
                        /\ f[w] = t /\ arg[w] = t
    BY DEF AcceptedNotLost
  <2>1. PICK w \in Workers : Current(w) = t /\ wpc[w] \in {"spin", "call"}
    BY DEF IInv, HistoryInv
  <2>2. Busy(w) /\ alive[w]
    BY <2>1 DEF IInv, WorkerInv, Idle, Woken, Ahead
  <2> QED BY <2>1, <2>2 DEF Busy
<1> QED BY <1>1, Invariance, PTL

\* wait_worker_thread returns the value of the task it waits for.
THEOREM WaitCorrect == Spec => []WaitReturnsResult
<1>1. IInv => WaitReturnsResult
  <2> SUFFICES ASSUME IInv, mpc = "wait", state[idx] = "WAIT" PROVE ret[idx] = last[idx]
    BY DEF WaitReturnsResult
  <2>1. idx \in Workers
    BY DEF IInv, TypeOK
  <2> QED BY <2>1 DEF IInv, WorkerInv, Idle, Woken, Busy, Ahead, Launching
<1> QED BY <1>1, Invariance, PTL

\* destroy_thread_pool cancels only workers that have nothing to do.
THEOREM CancelCorrect == Spec => CancelOnlyIdleWorkers
<1>1. IInv /\ [Next]_vars =>
        [\A w \in Workers : alive[w] /\ ~alive'[w] =>
           /\ wpc[w] = "wait" /\ m2w[w] = 0 /\ w2m[w] = 0
           /\ f[w] = NULL /\ ret[w] = last[w]]_vars
  <2> SUFFICES ASSUME IInv, Next, NEW w \in Workers, alive[w], ~alive'[w]
               PROVE  /\ wpc[w] = "wait" /\ m2w[w] = 0 /\ w2m[w] = 0
                      /\ f[w] = NULL /\ ret[w] = last[w]
    OBVIOUS
  <2>1. stop_worker_thread /\ w = idx
    <3>1. CASE stop_worker_thread
      BY <3>1 DEF stop_worker_thread, IInv, TypeOK
    <3>2. CASE create_worker_thread
      BY <3>2 DEF create_worker_thread, IInv, TypeOK
    <3>3. CASE alive' = alive
      BY <3>3
    <3> QED BY <3>1, <3>2, <3>3
         DEF Next, LauncherStep, WorkerStep, Terminated, vars,
             create_thread_pool_returns, get_one_idle_thread, launch_check, launch_set_arg,
             launch_set_f, wake_worker_thread, wake_read_ack, wait_worker_thread, destroy_wait,
             stop_missing_thread, create_pipe_fails, pthread_create_fails, launch_any, launch_on,
             wait_begin, destroy_begin, worker_thread_wait_command, worker_set_running,
             worker_thread_ack_command, worker_load_f, worker_call, worker_return,
             worker_clear_f, worker_clear_arg, worker_set_wait
  <2>2. Idle(w) /\ wpc[w] = "wait" /\ mpc = "dcancel"
    BY <2>1 DEF stop_worker_thread, IInv, WorkerInv, LauncherInv, Idle, Woken, Busy, Ahead, Launching
  <2> QED BY <2>2 DEF Idle, Launching
<1> QED BY <1>1, Invariance, PTL DEF Spec, CancelOnlyIdleWorkers

Assigned == accepted \cup (IF mpc \in {"wake", "ack"} THEN {task} ELSE {})

\* The steps that change nothing TaskPool can see.
Invisible == UNCHANGED <<f, calls, initialized>> /\ Assigned' = Assigned

\* A step of the pool is invisible or one of seven.
LEMMA VisibleSteps ==
  ASSUME IInv, [Next]_vars
  PROVE  \/ Invisible
         \/ create_thread_pool_returns \/ pthread_create_fails
         \/ launch_set_f \/ stop_worker_thread
         \/ \E w \in Workers : worker_call(w) \/ worker_clear_f(w)
<1> USE DEF Invisible, Assigned, mainVars, mailbox, workerVars, historyVars
<1>1. CASE UNCHANGED vars
  BY <1>1 DEF vars
<1>2. CASE create_worker_thread \/ create_pipe_fails \/ wait_worker_thread
             \/ destroy_begin \/ destroy_wait \/ stop_missing_thread
  BY <1>2 DEF create_worker_thread, create_pipe_fails, wait_worker_thread, destroy_begin,
              destroy_wait, stop_missing_thread
<1>3. CASE get_one_idle_thread \/ launch_check \/ launch_set_arg \/ wake_worker_thread
  BY <1>3 DEF get_one_idle_thread, launch_check, launch_set_arg, wake_worker_thread
<1>4. CASE wake_read_ack
  BY <1>4 DEF wake_read_ack, Accept
<1>5. CASE \/ \E t \in Tasks : launch_any(t) \/ \E w \in Workers : launch_on(t, w)
           \/ \E w \in Workers : wait_begin(w)
  BY <1>5 DEF launch_any, launch_on, wait_begin
<1>6. ASSUME NEW w \in Workers,
             \/ worker_thread_wait_command(w) \/ worker_set_running(w)
             \/ worker_thread_ack_command(w) \/ worker_load_f(w) \/ worker_return(w)
             \/ worker_clear_arg(w) \/ worker_set_wait(w)
      PROVE  Invisible
  BY <1>6 DEF worker_thread_wait_command, worker_set_running, worker_thread_ack_command,
              worker_load_f, worker_return, worker_clear_arg, worker_set_wait
<1>7. CASE Terminated
  BY <1>1, <1>7 DEF Terminated
<1> QED BY <1>1, <1>2, <1>3, <1>4, <1>5, <1>6, <1>7 DEF Next, LauncherStep, WorkerStep

\* The mailbox protocol implements TaskPool: storing f assigns a task to a slot,
\* the call starts it, clearing f frees the slot, and the last join closes.
THEOREM Refinement == Spec => RefinesTaskPool
<1>1. Init => Abstract!Init
  BY DEF Init, Abstract!Init
<1>2. IInv /\ [Next]_vars => [Abstract!Next]_(Abstract!vars)
  <2> SUFFICES ASSUME IInv, [Next]_vars PROVE [Abstract!Next]_(Abstract!vars)
    OBVIOUS
  <2> USE DEF Abstract!Next, mainVars, mailbox, workerVars, historyVars
  <2>1. CASE Invisible
    BY <2>1 DEF Invisible, Assigned, Abstract!vars
  <2>2. CASE create_thread_pool_returns \/ pthread_create_fails
    <3>1. Abstract!Open
      BY <2>2 DEF create_thread_pool_returns, pthread_create_fails, Abstract!Open, IInv, LauncherInv
    <3> QED BY <3>1
  <2>3. CASE launch_set_f
    <3>1. idx \in Workers /\ task \in Tasks \ accepted /\ initialized /\ f[idx] = NULL
      BY <2>3 DEF launch_set_f, IInv, TypeOK, LauncherInv, WorkerInv, Idle, Woken, Busy, Ahead
    <3>2. Abstract!Assign(task, idx)
      BY <2>3, <3>1 DEF launch_set_f, Abstract!Assign
    <3> QED BY <3>1, <3>2
  <2>4. ASSUME NEW w \in Workers, worker_call(w)
        PROVE  Abstract!Next
    <3>1. /\ f[w] \in Tasks /\ wf[w] = f[w] /\ calls[f[w]] = 0
      BY <2>4 DEF worker_call, WorkerGoto, IInv, WorkerInv, Idle, Woken, Busy, Ahead
    <3>2. {t \in Tasks : calls'[t] > 0} = {t \in Tasks : calls[t] > 0} \cup {f[w]}
      BY <2>4, <3>1 DEF worker_call, IInv, TypeOK
    <3>3. Abstract!Start(w)
      BY <2>4, <3>1, <3>2 DEF worker_call, Abstract!Start
    <3> QED BY <3>3
  <2>5. ASSUME NEW w \in Workers, worker_clear_f(w)
        PROVE  Abstract!Next
    <3>1. f[w] \in Tasks /\ calls[f[w]] > 0
      BY <2>5 DEF worker_clear_f, WorkerGoto, IInv, WorkerInv, Idle, Woken, Busy, Ahead
    <3>2. Abstract!Finish(w)
      BY <2>5, <3>1 DEF worker_clear_f, Abstract!Finish
    <3> QED BY <3>2
  <2>6. CASE stop_worker_thread
    <3>1. CASE idx + 1 < Size
      BY <2>6, <3>1 DEF stop_worker_thread, Abstract!vars
    <3>2. CASE ~(idx + 1 < Size)
      <4>1. \A w \in Workers : w = idx \/ w < idx
        BY <3>2, SizeAssumption DEF Workers, IInv, TypeOK
      <4>2. \A w \in Workers : wpc[w] \in {"none", "wait"} /\ f[w] = NULL
        BY <2>6, <4>1
           DEF stop_worker_thread, IInv, LauncherInv, WorkerInv, Idle, Woken, Busy, Ahead
      <4>3. \A t \in accepted : t \in Tasks /\ calls[t] = 1
        BY <4>2 DEF IInv, TypeOK, HistoryInv
      <4>4. \A t \in Tasks : calls[t] > 0 => t \in accepted
        BY <2>6 DEF stop_worker_thread, IInv, TypeOK, HistoryInv
      <4>5. accepted = {t \in Tasks : calls[t] > 0}
        BY <4>3, <4>4
      <4>6. /\ initialized /\ initialized' = FALSE /\ mpc = "dcancel" /\ mpc' = "destroyed"
            /\ UNCHANGED <<f, calls, accepted>>
        BY <2>6, <3>2 DEF stop_worker_thread, IInv, LauncherInv
      <4>7. Abstract!Close
        BY <4>2, <4>5, <4>6 DEF Abstract!Close
      <4> QED BY <4>7
    <3> QED BY <3>1, <3>2
  <2> QED BY <2>1, <2>2, <2>3, <2>4, <2>5, <2>6, VisibleSteps
<1> QED BY <1>1, <1>2, Invariance, PTL DEF Spec, RefinesTaskPool, Abstract!Spec

\* Worker w can take its next step, or runs its task.
Moves(w) ==
  /\ wpc[w] # "none"
  /\ wpc[w] = "wait" => m2w[w] > 0
  /\ wpc[w] = "spin" => f[w] # NULL

\* Whenever the launcher blocks on a worker that exists, that worker moves.
LauncherNotStuck ==
  /\ mpc = "ack" /\ alive[idx] => w2m[idx] > 0 \/ Moves(idx)
  /\ mpc \in {"wait", "dwait"} => state[idx] = "WAIT" \/ Moves(idx)
  /\ mpc = "dcancel" /\ alive[idx] => wpc[idx] \in CancelPoints

\* The launcher and a worker never block on each other: launch_one_thread waits
\* for an acknowledgement that is written or that the worker is on its way to,
\* wait_worker_thread and destroy_thread_pool poll the guard of a worker that
\* is not asleep, and the pthread_join of stop_worker_thread waits for a thread
\* at a cancellation point.
THEOREM LauncherMoves == Spec => []LauncherNotStuck
<1>1. IInv => LauncherNotStuck
  <2> SUFFICES ASSUME IInv PROVE LauncherNotStuck
    OBVIOUS
  <2>1. mpc \in {"ack", "wait", "dwait", "dcancel"} => idx \in Workers
    BY DEF IInv, TypeOK
  <2>2. ASSUME mpc = "ack", alive[idx], ~(w2m[idx] > 0)
        PROVE  Moves(idx)
    BY <2>1, <2>2, NullAssumption
       DEF IInv, WorkerInv, Idle, Woken, Busy, Ahead, Launching, Moves
  <2>3. ASSUME mpc \in {"wait", "dwait"}, state[idx] # "WAIT"
        PROVE  Moves(idx)
    BY <2>1, <2>3, NullAssumption
       DEF IInv, WorkerInv, Idle, Woken, Busy, Ahead, Launching, Moves
  <2>4. ASSUME mpc = "dcancel", alive[idx]
        PROVE  wpc[idx] \in CancelPoints
    BY <2>1, <2>4 DEF IInv, WorkerInv, LauncherInv, CancelPoints
  <2> QED BY <2>2, <2>3, <2>4 DEF LauncherNotStuck
<1> QED BY <1>1, Invariance, PTL
=============================================================================
