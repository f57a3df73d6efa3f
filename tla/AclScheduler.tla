---------------------------- MODULE AclScheduler ----------------------------
(***************************************************************************)
(* ThreadpoolScheduler of cpu/aarch64/acl_threadpool_scheduler.cpp: the    *)
(* workloads of an Arm Compute Library kernel run on the threadpool the    *)
(* user gave oneDNN.  Application threads call schedule or schedule_op;    *)
(* run_workloads holds _mtx, so one frame exists at a time, and the jobs   *)
(* of the pool refer to the feeder and the barrier in that frame.  There   *)
(* is one scheduler: acl_set_tp_scheduler replaces it in every thread that *)
(* creates its first engine, and here one thread created them all, before. *)
(*                                                                         *)
(* The threadpool is the user's.  It runs every job once, on one of its    *)
(* threads or, if it is not asynchronous, on the calling one; parallel_for *)
(* of an asynchronous pool may return before its jobs have run.            *)
(***************************************************************************)
EXTENDS CountingBarrier, FiniteSets

CONSTANTS
    Callers,       \* application threads
    Workers,       \* threads of the pools
    Pools,         \* the user's threadpools
    Async,         \* those that are asynchronous
    PoolThreads,   \* get_num_threads of each
    ActivePools,   \* ActivePools[c]: what may be active when c executes
    MaxWorkloads,  \* bound on the number of workloads of a kernel
    Concurrency,   \* get_max_concurrency, without an active threadpool
    None           \* no threadpool, no thread

ASSUME PoolsAssumption ==
    /\ Async \subseteq Pools
    /\ PoolThreads \in [Pools -> Nat]
    /\ ActivePools \in [Callers -> SUBSET (Pools \cup {None})]
    /\ Concurrency \in Nat \ {0}
    /\ MaxWorkloads \in Nat
    /\ MaxWorkloads < waiter_mask_

\* A thread of a pool is none of the application's, and None is neither a
\* thread nor a pool.
ASSUME DistinctAssumption ==
    /\ Callers \cap Workers = {}
    /\ None \notin Pools \cup Callers \cup Workers

VARIABLES
    _num_threads,  \* of the scheduler, which all callers share
    _mtx,          \* the caller in run_workloads, or None
    flag_once,     \* whether a caller has passed its thread_local once_flag
    active,        \* the thread_local active threadpool
    pc,            \* where a caller is
    tp,            \* the pool of the frame
    size,          \* workloads.size()
    counter,       \* _atomic_counter of the ThreadFeeder
    job,           \* the calls of the lambda, or of process_workloads
    ran            \* how often each workload was called

frameVars == <<tp, size, counter, job, ran>>
vars == <<_num_threads, _mtx, flag_once, active, pc, frameVars, barrierVars>>

Jobs == 0..(MaxWorkloads - 1)
Threads == Callers \cup Workers
MinOf(a, b) == IF a < b THEN a ELSE b
MaxOf(a, b) == IF a > b THEN a ELSE b

JobSteps == {"none", "queued", "work", "next", "leave", "wake", "done"}

\* Types.
TypeOK ==
    /\ BarrierTypeOK
    /\ _num_threads \in Nat \ {0}
    /\ _mtx \in Callers \cup {None}
    /\ flag_once \in [Callers -> BOOLEAN]
    /\ active \in [Threads -> Pools \cup {None}]
    /\ pc \in [Callers -> {"idle", "run", "alone", "posted", "wait", "sleep", "return", "exited"}]
    /\ tp \in Pools \cup {None}
    /\ size \in 0..MaxWorkloads
    /\ counter \in Nat
    /\ job \in [Jobs -> [at : JobSteps, load : Nat,
                         by : Threads \cup {None}, main : BOOLEAN]]
    /\ ran \in [Jobs -> Nat]

NoJob == [at |-> "none", load |-> 0, by |-> None, main |-> FALSE]

\* Mutant of MaxThreads: a pool without threads of its own counts for none.
MaxThreadsOfPool(p) == PoolThreads[p]

\* dnnl_get_max_threads when the active threadpool is p, at least 1
MaxThreads(p) == MaxOf(1, PoolThreads[p])

Init ==
    /\ _num_threads = Concurrency
    /\ _mtx = None
    /\ flag_once = [c \in Callers |-> FALSE]
    /\ active = [t \in Threads |-> None]
    /\ pc = [c \in Callers |-> "idle"]
    /\ tp = None
    /\ size = 0
    /\ counter = 0
    /\ job = [i \in Jobs |-> NoJob]
    /\ ran = [w \in Jobs |-> 0]
    /\ state_ = 0
    /\ notified_ = FALSE

Goto(c, step) == pc' = [pc EXCEPT ![c] = step]

-----------------------------------------------------------------------------
\* schedule and schedule_op, in a stream whose threadpool is p: the first call
\* of a thread sets the number of threads of the scheduler.
Schedule(c, p) ==
    /\ pc[c] = "idle"
    /\ p \in ActivePools[c]
    /\ active' = [active EXCEPT ![c] = p]
    /\ IF flag_once[c]
       THEN UNCHANGED <<_num_threads, flag_once>>
       ELSE /\ _mtx = None
            /\ _num_threads' = IF p = None THEN 1 ELSE MaxThreads(p)
            /\ flag_once' = [flag_once EXCEPT ![c] = TRUE]
    /\ Goto(c, "run")
    /\ UNCHANGED <<_mtx, frameVars, barrierVars>>

\* run_workloads with n workloads, up to the end of parallel_for.
RunWorkloads(c, n) ==
    LET num_threads == MinOf(_num_threads, n) IN
    /\ pc[c] = "run" /\ _mtx = None
    /\ IF num_threads < 1
       THEN /\ Goto(c, "idle")
            /\ active' = [active EXCEPT ![c] = None]
            /\ UNCHANGED <<_mtx, frameVars, barrierVars>>
       ELSE /\ _mtx' = c
            /\ size' = n
            /\ counter' = num_threads
            /\ ran' = [w \in Jobs |-> 0]
            /\ tp' = active[c]
            /\ \/ /\ active[c] = None \/ num_threads = 1
                  /\ active' = [active EXCEPT ![c] = None]
                  /\ job' = [i \in Jobs |->
                               IF i = 0 THEN [NoJob EXCEPT !.at = "work", !.by = c]
                               ELSE NoJob]
                  /\ Goto(c, "alone")
                  /\ UNCHANGED barrierVars
               \/ /\ active[c] # None /\ num_threads > 1
                  /\ job' = [i \in Jobs |->
                               IF i < num_threads THEN [NoJob EXCEPT !.at = "queued"]
                               ELSE NoJob]
                  /\ BarrierSet(IF active[c] \in Async THEN num_threads ELSE 0)
                  /\ Goto(c, "posted")
                  /\ UNCHANGED active
    /\ UNCHANGED <<_num_threads, flag_once>>

-----------------------------------------------------------------------------
(* The jobs.                                                                *)

JobUnchanged == UNCHANGED <<_num_threads, _mtx, flag_once, pc, tp, size>>

\* A thread of the pool calls the lambda for ithr = i; it works for no other
\* job, and the calling thread helps unless the pool is asynchronous.
TakeJob(i, t) ==
    /\ job[i].at = "queued"
    /\ t \in Workers \/ (t = _mtx /\ tp \notin Async)
    /\ \A j \in Jobs : job[j].by # t
    /\ job' = [job EXCEPT ![i] = [at |-> "work", load |-> i, by |-> t,
                                  main |-> active[t] = tp]]
    /\ active' = [active EXCEPT ![t] = tp]
    /\ UNCHANGED <<counter, ran, barrierVars>>
    /\ JobUnchanged

\* process_workloads calls a workload.
CallWorkload(i) ==
    /\ job[i].at = "work"
    /\ ran' = [ran EXCEPT ![job[i].load] = @ + 1]
    /\ job' = [job EXCEPT ![i].at = "next"]
    /\ UNCHANGED <<counter, active, barrierVars>>
    /\ JobUnchanged

\* Mutant of GetNext: one workload too many.
GetNextPast(i) ==
    /\ job[i].at = "next"
    /\ counter' = counter + 1
    /\ job' = [job EXCEPT ![i].load = counter,
                          ![i].at = IF counter <= size THEN "work"
                                    ELSE IF pc[_mtx] = "alone" THEN "done" ELSE "leave"]
    /\ UNCHANGED <<ran, active, barrierVars>>
    /\ JobUnchanged

\* get_next
GetNext(i) ==
    /\ job[i].at = "next"
    /\ counter' = counter + 1
    /\ job' = [job EXCEPT ![i].load = counter,
                          ![i].at = IF counter < size THEN "work"
                                    ELSE IF pc[_mtx] = "alone" THEN "done" ELSE "leave"]
    /\ UNCHANGED <<ran, active, barrierVars>>
    /\ JobUnchanged

\* Mutant of LeaveJob: the worker keeps the threadpool.
LeaveJobActive(i) ==
    /\ job[i].at = "leave"
    /\ UNCHANGED active
    /\ \E wake \in BOOLEAN :
        /\ IF tp \in Async THEN NotifySub(wake) ELSE wake = FALSE /\ UNCHANGED barrierVars
        /\ job' = [job EXCEPT ![i].at = IF wake THEN "wake" ELSE "done",
                              ![i].by = IF wake THEN @ ELSE None]
    /\ UNCHANGED <<counter, ran>>
    /\ JobUnchanged

\* The end of the lambda.
LeaveJob(i) ==
    /\ job[i].at = "leave"
    /\ active' = IF job[i].main THEN active ELSE [active EXCEPT ![job[i].by] = None]
    /\ \E wake \in BOOLEAN :
        /\ IF tp \in Async THEN NotifySub(wake) ELSE wake = FALSE /\ UNCHANGED barrierVars
        /\ job' = [job EXCEPT ![i].at = IF wake THEN "wake" ELSE "done",
                              ![i].by = IF wake THEN @ ELSE None]
    /\ UNCHANGED <<counter, ran>>
    /\ JobUnchanged

\* The last job to notify wakes the caller.
WakeCaller(i) ==
    /\ job[i].at = "wake"
    /\ NotifyWake
    /\ job' = [job EXCEPT ![i].at = "done", ![i].by = None]
    /\ UNCHANGED <<counter, ran, active>>
    /\ JobUnchanged

-----------------------------------------------------------------------------
(* The rest of run_workloads.                                               *)

CallerUnchanged == UNCHANGED <<_num_threads, _mtx, flag_once, frameVars>>

\* process_workloads has returned in the calling thread.
AloneDone(c) ==
    /\ pc[c] = "alone" /\ job[0].at = "done"
    /\ active' = [active EXCEPT ![c] = tp]
    /\ Goto(c, "return")
    /\ UNCHANGED barrierVars
    /\ CallerUnchanged

\* parallel_for returns: after its jobs, unless the pool is asynchronous.
ParallelForReturns(c) ==
    /\ pc[c] = "posted"
    /\ \/ tp \in Async /\ Goto(c, "wait")
       \/ /\ tp \notin Async
          /\ \A i \in Jobs : job[i].at \in {"none", "done"}
          /\ Goto(c, "return")
    /\ UNCHANGED <<active, barrierVars>>
    /\ CallerUnchanged

\* b.wait()
Wait(c) ==
    /\ pc[c] = "wait"
    /\ \E over \in BOOLEAN :
        /\ WaitOr(over)
        /\ Goto(c, IF over THEN "return" ELSE "sleep")
    /\ UNCHANGED active
    /\ CallerUnchanged

WakeUp(c) ==
    /\ pc[c] = "sleep" /\ Awake
    /\ Goto(c, "return")
    /\ UNCHANGED <<active, barrierVars>>
    /\ CallerUnchanged

\* run_workloads returns: the frame is gone and _mtx free.  The stream makes
\* its threadpool inactive again.
Return(c) ==
    /\ pc[c] = "return"
    /\ _mtx' = None
    /\ active' = [active EXCEPT ![c] = None]
    /\ tp' = None
    /\ size' = 0
    /\ counter' = 0
    /\ job' = [i \in Jobs |-> NoJob]
    /\ ran' = [w \in Jobs |-> 0]
    /\ state_' = 0
    /\ notified_' = FALSE
    /\ Goto(c, "idle")
    /\ UNCHANGED <<_num_threads, flag_once>>

\* The application needs this thread no more.
Exit(c) ==
    /\ pc[c] = "idle"
    /\ Goto(c, "exited")
    /\ UNCHANGED <<active, barrierVars>>
    /\ CallerUnchanged

-----------------------------------------------------------------------------
CallerStep(c) ==
    \/ \E n \in 0..MaxWorkloads : RunWorkloads(c, n)
    \/ AloneDone(c) \/ ParallelForReturns(c) \/ Wait(c) \/ WakeUp(c) \/ Return(c)

JobStep(i) ==
    \/ \E t \in Threads : TakeJob(i, t)
    \/ CallWorkload(i) \/ GetNext(i) \/ LeaveJob(i) \/ WakeCaller(i)

Next ==
    \/ \E c \in Callers, p \in Pools \cup {None} : Schedule(c, p)
    \/ \E c \in Callers : CallerStep(c)
    \/ \E c \in Callers : Exit(c)
    \/ \E i \in Jobs : JobStep(i)

Spec == Init /\ [][Next]_vars

\* Threads that can run do, and the pool runs every job it was given.  Nothing
\* is assumed about who gets _mtx.
FairSpec ==
    /\ Spec
    /\ \A c \in Callers : WF_vars(CallerStep(c))
    /\ \A i \in Jobs : WF_vars(JobStep(i))

-----------------------------------------------------------------------------
(* Properties.                                                              *)

\* Every workload of the kernel is called exactly once before run_workloads
\* returns, and none that does not exist (process_workloads, ThreadFeeder).
WorkloadsRunOnce ==
    /\ \A i \in Jobs : job[i].at = "work" => job[i].load < size
    /\ \A w \in Jobs : ran[w] <= 1
    /\ \A c \in Callers : pc[c] = "return" => \A w \in Jobs : w < size => ran[w] = 1

\* The feeder and the barrier live in the frame of run_workloads: when it is
\* about to return, no job of the pool will touch them any more (notify, wait).
FrameOutlivesJobs ==
    \A c \in Callers : pc[c] = "return" =>
        \A i \in Jobs : job[i].at \in {"none", "done"}

\* The threadpool is active in every thread that calls a workload of a parallel
\* job, and in no worker outside one: a worker is left as it was found, and so
\* is the caller (activate_threadpool, deactivate_threadpool).
ActiveOnlyInJobs ==
    /\ \A t \in Workers :
        active[t] # None <=> \E i \in Jobs : job[i].by = t /\ job[i].at # "wake"
    /\ \A c \in Callers : pc[c] \in {"posted", "wait", "sleep", "return"} => active[c] = tp

\* A call of run_workloads that got _mtx gives it back: the wake-up of its
\* barrier is not lost (notify, wait).
EveryRunEnds == \A c \in Callers : _mtx = c ~> _mtx # c
=============================================================================
