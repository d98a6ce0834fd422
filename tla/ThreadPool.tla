----------------------------- MODULE ThreadPool -----------------------------
(***************************************************************************)
(* The thread pool of src/thread_pool.c: every worker has a pair of pipes, *)
(* a mailbox (f, arg, ret) and a guard variable state.  The launcher       *)
(* checks the guard, fills the mailbox, writes a byte to the worker's pipe *)
(* and waits for the byte that acknowledges it; the worker sets the guard, *)
(* acknowledges, calls the function and resets mailbox and guard.          *)
(*                                                                         *)
(* Every access to shared memory and every pipe operation is a step of its *)
(* own.  The pool has one launcher at a time, as in server and client: the *)
(* main thread launches the daemons, the last of which launches the        *)
(* handlers; the test launches, waits and destroys from one thread.        *)
(***************************************************************************)
EXTENDS Integers

CONSTANTS Size,        \* tp->size
          Tasks,       \* the launches: function and argument of each are tagged with it
          CreateFault, \* the workers whose pipe() or pthread_create() may fail
          NULL

ASSUME SizeAssumption == Size \in Nat \ {0}
ASSUME NullAssumption == NULL \notin Tasks

Workers == 0 .. Size - 1

VARIABLES
  initialized, \* tp->initialized
  alive,       \* alive[w]: pthread_create succeeded and the thread was not cancelled
  state,       \* ti->state
  f, arg, ret, \* ti->f, ti->arg, ti->ret
  m2w, w2m,    \* the bytes in ti->pipe_main2worker and ti->pipe_worker2main
  wpc,         \* where each worker is in worker_thread_loop
  wf, warg,    \* its local f and fct_arg
  mpc,         \* where the launcher is
  idx,         \* its local i, tid or ti
  task,        \* the launch in progress
  \* history
  accepted,    \* the tasks whose launch returned 0
  last,        \* last[w]: the last task accepted on w
  calls        \* calls[t]: how often a worker called t

mainVars    == <<mpc, idx, task>>
mailbox     == <<state, f, arg, ret, m2w, w2m>>
workerVars  == <<wpc, wf, warg>>
historyVars == <<accepted, last, calls>>
vars == <<initialized, alive, mailbox, workerVars, mainVars, historyVars>>

Init ==
  /\ initialized = FALSE
  /\ alive = [w \in Workers |-> FALSE]
  /\ state = [w \in Workers |-> "WAIT"]
  /\ f     = [w \in Workers |-> NULL]
  /\ arg   = [w \in Workers |-> NULL]
  /\ ret   = [w \in Workers |-> NULL]
  /\ m2w   = [w \in Workers |-> 0]
  /\ w2m   = [w \in Workers |-> 0]
  /\ wpc   = [w \in Workers |-> "none"]
  /\ wf    = [w \in Workers |-> NULL]
  /\ warg  = [w \in Workers |-> NULL]
  /\ mpc = "create" /\ idx = 0 /\ task = NULL
  /\ accepted = {}
  /\ last  = [w \in Workers |-> NULL]
  /\ calls = [t \in Tasks |-> 0]

-----------------------------------------------------------------------------
(* create_thread_pool, init_thread_pool, create_worker_thread *)

\* One iteration of the loop of init_thread_pool that succeeds.
create_worker_thread ==
  /\ mpc = "create" /\ idx < Size
  /\ alive' = [alive EXCEPT ![idx] = TRUE]
  /\ wpc' = [wpc EXCEPT ![idx] = "wait"]
  /\ idx' = idx + 1
  /\ UNCHANGED <<initialized, mailbox, wf, warg, mpc, task, historyVars>>

\* pipe() fails: create_worker_thread returns -1 and create_thread_pool NULL.
create_pipe_fails ==
  /\ mpc = "create" /\ idx \in CreateFault
  /\ mpc' = "failed"
  /\ UNCHANGED <<initialized, alive, mailbox, workerVars, idx, task, historyVars>>

\* pthread_create fails: it returns a positive errno, which ends the loop but
\* is not < 0, so create_thread_pool hands out a pool with missing workers.
pthread_create_fails ==
  /\ mpc = "create" /\ idx \in CreateFault
  /\ initialized' = TRUE
  /\ mpc' = "idle"
  /\ UNCHANGED <<alive, mailbox, workerVars, idx, task, historyVars>>

create_thread_pool_returns ==
  /\ mpc = "create" /\ idx = Size
  /\ initialized' = TRUE
  /\ mpc' = "idle"
  /\ UNCHANGED <<alive, mailbox, workerVars, idx, task, historyVars>>

-----------------------------------------------------------------------------
(* launch_thread_in_pool and launch_one_thread *)

\* launch_thread_in_pool with THREAD_INDEX_ANY: get_one_idle_thread starts.
launch_any(t) ==
  /\ mpc = "idle" /\ t \notin accepted
  /\ mpc' = "scan" /\ idx' = 0 /\ task' = t
  /\ UNCHANGED <<initialized, alive, mailbox, workerVars, historyVars>>

\* launch_thread_in_pool with a thread index.
launch_on(t, w) ==
  /\ mpc = "idle" /\ t \notin accepted
  /\ mpc' = "check" /\ idx' = w /\ task' = t
  /\ UNCHANGED <<initialized, alive, mailbox, workerVars, historyVars>>

\* Mutant: the scan runs to i <= size.
scan_past_end ==
  /\ mpc = "scan" /\ idx \in Workers
  /\ IF state[idx] = "WAIT" THEN mpc' = "check" /\ idx' = idx
                            ELSE mpc' = "scan" /\ idx' = idx + 1
  /\ UNCHANGED <<initialized, alive, mailbox, workerVars, task, historyVars>>

\* One iteration of get_one_idle_thread; after the last one it returns -1.
get_one_idle_thread ==
  /\ mpc = "scan"
  /\ IF state[idx] = "WAIT"
       THEN mpc' = "check" /\ idx' = idx
       ELSE IF idx + 1 < Size THEN mpc' = "scan" /\ idx' = idx + 1
                              ELSE mpc' = "idle" /\ idx' = idx
  /\ UNCHANGED <<initialized, alive, mailbox, workerVars, task, historyVars>>

\* Mutant: launch_one_thread does not look at the guard.
launch_unchecked ==
  /\ mpc = "check"
  /\ mpc' = "setArg"
  /\ UNCHANGED <<initialized, alive, mailbox, workerVars, idx, task, historyVars>>

\* launch_one_thread reads the guard: -EBUSY unless the worker waits.
launch_check ==
  /\ mpc = "check"
  /\ mpc' = IF state[idx] = "WAIT" THEN "setArg" ELSE "idle"
  /\ UNCHANGED <<initialized, alive, mailbox, workerVars, idx, task, historyVars>>

launch_set_arg ==
  /\ mpc = "setArg"
  /\ arg' = [arg EXCEPT ![idx] = task]
  /\ mpc' = "setF"
  /\ UNCHANGED <<initialized, alive, state, f, ret, m2w, w2m, workerVars, idx, task, historyVars>>

launch_set_f ==
  /\ mpc = "setF"
  /\ f' = [f EXCEPT ![idx] = task]
  /\ mpc' = "wake"
  /\ UNCHANGED <<initialized, alive, state, arg, ret, m2w, w2m, workerVars, idx, task, historyVars>>

\* The launch succeeded and its caller goes on.
Accept == /\ mpc' = "idle"
          /\ accepted' = accepted \cup {task}
          /\ last' = [last EXCEPT ![idx] = task]

\* Mutant: the launch does not wait for the acknowledgement.
wake_without_ack ==
  /\ mpc = "wake"
  /\ m2w' = [m2w EXCEPT ![idx] = @ + 1]
  /\ Accept
  /\ UNCHANGED <<initialized, alive, state, f, arg, ret, w2m, workerVars, idx, task, calls>>

\* wake_worker_thread writes the command byte ...
wake_worker_thread ==
  /\ mpc = "wake"
  /\ m2w' = [m2w EXCEPT ![idx] = @ + 1]
  /\ mpc' = "ack"
  /\ UNCHANGED <<initialized, alive, state, f, arg, ret, w2m, workerVars, idx, task, historyVars>>

\* ... and blocks until the worker acknowledges it; then the launch returns 0.
wake_read_ack ==
  /\ mpc = "ack" /\ w2m[idx] > 0
  /\ w2m' = [w2m EXCEPT ![idx] = @ - 1]
  /\ Accept
  /\ UNCHANGED <<initialized, alive, state, f, arg, ret, m2w, workerVars, idx, task, calls>>

-----------------------------------------------------------------------------
(* wait_worker_thread and destroy_thread_pool *)

wait_begin(w) ==
  /\ mpc = "idle"
  /\ mpc' = "wait" /\ idx' = w
  /\ UNCHANGED <<initialized, alive, mailbox, workerVars, task, historyVars>>

\* wait_worker_thread returns ti->ret once the worker waits.
wait_worker_thread ==
  /\ mpc = "wait" /\ state[idx] = "WAIT"
  /\ mpc' = "idle"
  /\ UNCHANGED <<initialized, alive, mailbox, workerVars, idx, task, historyVars>>

destroy_begin ==
  /\ mpc = "idle" /\ initialized
  /\ mpc' = "dwait" /\ idx' = 0
  /\ UNCHANGED <<initialized, alive, mailbox, workerVars, task, historyVars>>

\* Mutant: destroy_thread_pool does not wait for the worker.
destroy_no_wait ==
  /\ mpc = "dwait"
  /\ mpc' = "dcancel"
  /\ UNCHANGED <<initialized, alive, mailbox, workerVars, idx, task, historyVars>>

destroy_wait ==
  /\ mpc = "dwait" /\ state[idx] = "WAIT"
  /\ mpc' = "dcancel"
  /\ UNCHANGED <<initialized, alive, mailbox, workerVars, idx, task, historyVars>>

\* The points where a deferred cancellation takes effect: read, write and
\* usleep of the loop, and whatever the task calls.
CancelPoints == {"wait", "ack", "spin", "run"}

\* stop_worker_thread cancels and joins the worker, which ends at its next
\* cancellation point.
stop_worker_thread ==
  /\ mpc = "dcancel" /\ alive[idx] /\ wpc[idx] \in CancelPoints
  /\ alive' = [alive EXCEPT ![idx] = FALSE]
  /\ wpc' = [wpc EXCEPT ![idx] = "none"]
  /\ IF idx + 1 < Size
       THEN mpc' = "dwait" /\ idx' = idx + 1 /\ initialized' = initialized
       ELSE mpc' = "destroyed" /\ idx' = idx /\ initialized' = FALSE
  /\ UNCHANGED <<mailbox, wf, warg, task, historyVars>>

\* pthread_cancel of a thread that was never created is undefined; glibc
\* dereferences the zero thread_id.
stop_missing_thread ==
  /\ mpc = "dcancel" /\ ~alive[idx]
  /\ mpc' = "crashed"
  /\ UNCHANGED <<initialized, alive, mailbox, workerVars, idx, task, historyVars>>

-----------------------------------------------------------------------------
(* worker_thread_loop *)

WorkerGoto(w, from, to) ==
  /\ wpc[w] = from
  /\ wpc' = [wpc EXCEPT ![w] = to]

\* Mutant: the guard is not set to RUNNING.
read_skips_running(w) ==
  /\ WorkerGoto(w, "wait", "ack")
  /\ m2w[w] > 0
  /\ m2w' = [m2w EXCEPT ![w] = @ - 1]
  /\ UNCHANGED <<initialized, alive, state, f, arg, ret, w2m, wf, warg, mainVars, historyVars>>

worker_thread_wait_command(w) ==
  /\ WorkerGoto(w, "wait", "setRunning")
  /\ m2w[w] > 0
  /\ m2w' = [m2w EXCEPT ![w] = @ - 1]
  /\ UNCHANGED <<initialized, alive, state, f, arg, ret, w2m, wf, warg, mainVars, historyVars>>

worker_set_running(w) ==
  /\ WorkerGoto(w, "setRunning", "ack")
  /\ state' = [state EXCEPT ![w] = "RUNNING"]
  /\ UNCHANGED <<initialized, alive, f, arg, ret, m2w, w2m, wf, warg, mainVars, historyVars>>

\* Mutant: the acknowledgement is not written.
ack_lost(w) ==
  /\ WorkerGoto(w, "ack", "spin")
  /\ UNCHANGED <<initialized, alive, state, f, arg, ret, m2w, w2m, wf, warg, mainVars, historyVars>>

worker_thread_ack_command(w) ==
  /\ WorkerGoto(w, "ack", "spin")
  /\ w2m' = [w2m EXCEPT ![w] = @ + 1]
  /\ UNCHANGED <<initialized, alive, state, f, arg, ret, m2w, wf, warg, mainVars, historyVars>>

\* The loop that waits until f is visible, and its last load.
worker_load_f(w) ==
  /\ WorkerGoto(w, "spin", "call")
  /\ f[w] # NULL
  /\ wf' = [wf EXCEPT ![w] = f[w]]
  /\ UNCHANGED <<initialized, alive, mailbox, warg, mainVars, historyVars>>

\* fct_arg is loaded and the function is entered.
worker_call(w) ==
  /\ WorkerGoto(w, "call", "run")
  /\ warg' = [warg EXCEPT ![w] = arg[w]]
  /\ calls' = [calls EXCEPT ![wf[w]] = @ + 1]
  /\ UNCHANGED <<initialized, alive, mailbox, wf, mainVars, accepted, last>>

\* Mutant: ti->ret is not stored.
return_before_ret(w) ==
  /\ WorkerGoto(w, "run", "clearF")
  /\ UNCHANGED <<initialized, alive, state, f, arg, ret, m2w, w2m, wf, warg, mainVars, historyVars>>

\* The function returns and its value (tagged with the task) is stored.
worker_return(w) ==
  /\ WorkerGoto(w, "run", "clearF")
  /\ ret' = [ret EXCEPT ![w] = wf[w]]
  /\ UNCHANGED <<initialized, alive, state, f, arg, m2w, w2m, wf, warg, mainVars, historyVars>>

worker_clear_f(w) ==
  /\ WorkerGoto(w, "clearF", "clearArg")
  /\ f' = [f EXCEPT ![w] = NULL]
  /\ UNCHANGED <<initialized, alive, state, arg, ret, m2w, w2m, wf, warg, mainVars, historyVars>>

worker_clear_arg(w) ==
  /\ WorkerGoto(w, "clearArg", "setWait")
  /\ arg' = [arg EXCEPT ![w] = NULL]
  /\ UNCHANGED <<initialized, alive, state, f, ret, m2w, w2m, wf, warg, mainVars, historyVars>>

\* Mutant: the guard is not reset to WAIT.
set_wait_dropped(w) ==
  /\ WorkerGoto(w, "setWait", "wait")
  /\ UNCHANGED <<initialized, alive, mailbox, wf, warg, mainVars, historyVars>>

worker_set_wait(w) ==
  /\ WorkerGoto(w, "setWait", "wait")
  /\ state' = [state EXCEPT ![w] = "WAIT"]
  /\ UNCHANGED <<initialized, alive, f, arg, ret, m2w, w2m, wf, warg, mainVars, historyVars>>

-----------------------------------------------------------------------------
\* The steps of the launcher that need no decision of its caller.
LauncherStep ==
  \/ create_worker_thread \/ create_thread_pool_returns
  \/ get_one_idle_thread \/ launch_check \/ launch_set_arg \/ launch_set_f
  \/ wake_worker_thread \/ wake_read_ack
  \/ wait_worker_thread
  \/ destroy_wait \/ stop_worker_thread \/ stop_missing_thread

\* The steps of worker w outside the task it runs.
WorkerStep(w) ==
  \/ worker_thread_wait_command(w) \/ worker_set_running(w)
  \/ worker_thread_ack_command(w) \/ worker_load_f(w) \/ worker_call(w)
  \/ worker_clear_f(w) \/ worker_clear_arg(w) \/ worker_set_wait(w)

\* The process ends or the pool is gone.
Terminated == mpc \in {"failed", "destroyed", "crashed"} /\ UNCHANGED vars

Next ==
  \/ LauncherStep
  \/ create_pipe_fails \/ pthread_create_fails
  \/ \E t \in Tasks : launch_any(t) \/ \E w \in Workers : launch_on(t, w)
  \/ \E w \in Workers : wait_begin(w)
  \/ destroy_begin
  \/ \E w \in Workers : WorkerStep(w) \/ worker_return(w)
  \/ Terminated

Spec == Init /\ [][Next]_vars

\* Threads get scheduled: a thread whose next step stays possible takes it.
FairSpec == /\ Spec
            /\ WF_vars(LauncherStep)
            /\ \A w \in Workers : WF_vars(WorkerStep(w))

-----------------------------------------------------------------------------
TypeOK ==
  /\ initialized \in BOOLEAN
  /\ alive \in [Workers -> BOOLEAN]
  /\ state \in [Workers -> {"WAIT", "RUNNING"}]
  /\ f     \in [Workers -> Tasks \cup {NULL}]
  /\ arg   \in [Workers -> Tasks \cup {NULL}]
  /\ ret   \in [Workers -> Tasks \cup {NULL}]
  /\ m2w   \in [Workers -> Nat]
  /\ w2m   \in [Workers -> Nat]
  /\ wpc   \in [Workers -> {"none", "wait", "setRunning", "ack", "spin", "call",
                            "run", "clearF", "clearArg", "setWait"}]
  /\ wf    \in [Workers -> Tasks \cup {NULL}]
  /\ warg  \in [Workers -> Tasks \cup {NULL}]
  /\ mpc   \in {"create", "failed", "idle", "scan", "check", "setArg", "setF", "wake",
                "ack", "wait", "dwait", "dcancel", "destroyed", "crashed"}
  /\ idx   \in 0 .. Size
  /\ mpc \in {"scan", "check", "setArg", "setF", "wake", "ack", "wait", "dwait", "dcancel"}
       => idx \in Workers
  /\ task  \in Tasks \cup {NULL}
  /\ accepted \in SUBSET Tasks
  /\ last  \in [Workers -> Tasks \cup {NULL}]
  /\ calls \in [Tasks -> Nat]

-----------------------------------------------------------------------------
(* What a caller of the pool relies on *)

Executing(w) == wpc[w] \in {"run", "clearF", "clearArg", "setWait"}

\* A worker calls a function only with the argument of the same launch, no
\* launch is executed twice, and one that was refused is never executed:
\* worker_thread_loop reads f and arg at different times, unlocked.
CallMatchesLaunch ==
  /\ \A w \in Workers : Executing(w) => wf[w] = warg[w] /\ wf[w] # NULL
  /\ \A t \in Tasks : calls[t] <= 1
  /\ \A t \in Tasks : calls[t] = 1 => t \in accepted \/ (mpc = "ack" /\ task = t)

\* A launch that returned 0 is never lost: until the task is called, one
\* worker is on its way to it, marked RUNNING, with the task in its mailbox.
AcceptedNotLost ==
  \A t \in accepted : calls[t] = 0 =>
    \E w \in Workers :
      /\ alive[w] /\ state[w] = "RUNNING" /\ wpc[w] \in {"spin", "call"}
      /\ f[w] = t /\ arg[w] = t

\* When wait_worker_thread sees WAIT, what it returns is the value of the last
\* task launched on that worker, not of an earlier one (test/basic/thread_pool.c
\* compares it with the expected sum).
WaitReturnsResult ==
  mpc = "wait" /\ state[idx] = "WAIT" => ret[idx] = last[idx]

\* destroy_thread_pool cancels a worker only when it has nothing to do: no task
\* is cut off half way and no command byte is left unread.
CancelOnlyIdleWorkers ==
  [][\A w \in Workers : alive[w] /\ ~alive'[w] =>
       /\ wpc[w] = "wait" /\ m2w[w] = 0 /\ w2m[w] = 0
       /\ f[w] = NULL /\ ret[w] = last[w]]_vars

\* launch_one_thread does not block for ever on the acknowledgement of a worker
\* that exists.
LaunchReturns == (mpc = "ack" /\ alive[idx]) ~> (mpc = "idle")

\* Every task returns, as those of the test do.
TasksReturn == \A w \in Workers : WF_vars(worker_return(w))

\* destroy_thread_pool terminates when the tasks do.
DestroyEnds == TasksReturn => ((mpc = "dwait") ~> (mpc \in {"destroyed", "crashed"}))

\* The mailbox protocol implements the pool of slots: f is the slot.
Abstract == INSTANCE TaskPool WITH
  Slots    <- Workers,
  NoTask   <- NULL,
  slot     <- f,
  assigned <- accepted \cup (IF mpc \in {"wake", "ack"} THEN {task} ELSE {}),
  started  <- {t \in Tasks : calls[t] > 0},
  open     <- initialized
RefinesTaskPool == Abstract!Spec
-----------------------------------------------------------------------------
(* The inductive invariant behind these properties (ThreadPoolProofs.tla) *)

Launching(w) == mpc = "ack" /\ idx = w

\* The task worker w has been woken for.
Current(w) == IF Launching(w) THEN task ELSE last[w]

\* No command is known to w; the launcher may be filling its mailbox.
Idle(w) ==
  /\ wpc[w] \in {"none", "wait"}
  /\ state[w] = "WAIT"
  /\ m2w[w] = IF Launching(w) THEN 1 ELSE 0
  /\ w2m[w] = 0
  /\ arg[w] = IF mpc \in {"setF", "wake", "ack"} /\ idx = w THEN task ELSE NULL
  /\ f[w] = IF mpc \in {"wake", "ack"} /\ idx = w THEN task ELSE NULL
  /\ ret[w] = last[w]
  /\ Launching(w) => calls[task] = 0

\* w has read the command and not yet acknowledged it.
Woken(w) ==
  /\ wpc[w] \in {"setRunning", "ack"}
  /\ state[w] = IF wpc[w] = "ack" THEN "RUNNING" ELSE "WAIT"
  /\ m2w[w] = 0 /\ w2m[w] = 0
  /\ Launching(w) /\ f[w] = task /\ arg[w] = task /\ calls[task] = 0

\* w has acknowledged and runs its task.
Busy(w) ==
  /\ wpc[w] \in {"spin", "call", "run", "clearF", "clearArg", "setWait"}
  /\ state[w] = "RUNNING"
  /\ m2w[w] = 0
  /\ w2m[w] = IF Launching(w) THEN 1 ELSE 0
  /\ Current(w) \in Tasks
  /\ f[w] = IF wpc[w] \in {"clearArg", "setWait"} THEN NULL ELSE Current(w)
  /\ arg[w] = IF wpc[w] = "setWait" THEN NULL ELSE Current(w)
  /\ wpc[w] # "spin" => wf[w] = Current(w)
  /\ wpc[w] \notin {"spin", "call"} => warg[w] = Current(w)
  /\ wpc[w] \in {"clearF", "clearArg", "setWait"} => ret[w] = Current(w)
  /\ calls[Current(w)] = IF wpc[w] \in {"spin", "call"} THEN 0 ELSE 1

\* w has even finished its task before the launcher reads the acknowledgement.
Ahead(w) ==
  /\ wpc[w] = "wait" /\ state[w] = "WAIT"
  /\ m2w[w] = 0 /\ w2m[w] = 1
  /\ Launching(w) /\ f[w] = NULL /\ arg[w] = NULL
  /\ ret[w] = task /\ calls[task] = 1

WorkerInv ==
  \A w \in Workers :
    /\ alive[w] <=> wpc[w] # "none"
    /\ Idle(w) \/ Woken(w) \/ Busy(w) \/ Ahead(w)

LauncherInv ==
  /\ mpc = "create" =>
       accepted = {} /\ ~initialized /\ \A w \in Workers : wpc[w] \in {"none", "wait"}
  /\ mpc \notin {"create", "failed", "destroyed"} => initialized
  /\ mpc \in {"scan", "check", "setArg", "setF", "wake", "ack"} => task \in Tasks \ accepted
  /\ mpc \in {"setArg", "setF", "wake", "dcancel"} => wpc[idx] \in {"none", "wait"}
  /\ mpc \in {"dwait", "dcancel"} => \A w \in Workers : w < idx => wpc[w] = "none"

HistoryInv ==
  /\ \A w \in Workers : last[w] \in accepted \cup {NULL}
  /\ \A v, w \in Workers : last[v] = last[w] => v = w \/ last[v] = NULL
  /\ \A t \in Tasks : calls[t] <= 1
  /\ \A t \in Tasks \ accepted : calls[t] = 1 => mpc = "ack" /\ task = t
  /\ \A t \in accepted :
       \/ calls[t] = 1
       \/ \E w \in Workers : Current(w) = t /\ wpc[w] \in {"spin", "call"}

IInv == TypeOK /\ WorkerInv /\ LauncherInv /\ HistoryInv
=============================================================================
