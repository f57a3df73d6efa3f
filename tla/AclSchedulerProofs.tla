-------------------------- MODULE AclSchedulerProofs ------------------------
(***************************************************************************)
(* Theorems on ThreadpoolScheduler::run_workloads, for any number of       *)
(* callers, worker threads, threadpools and workloads: the frame outlives  *)
(* the jobs that refer to it, every workload is called exactly once, and   *)
(* the threadpool is active in a worker only during its job.               *)
(***************************************************************************)
EXTENDS AclScheduler, FiniteSetTheorems, TLAPS

\* Where the caller that holds _mtx can be.
Busy == {"alone", "posted", "wait", "sleep", "return"}

\* The jobs that have yet to notify the barrier.
Pending == {i \in Jobs : job[i].at \in {"queued", "work", "next", "leave"}}

\* Job i is the one to call workload w.
Holds(i, w) ==
    \/ job[i].at = "queued" /\ i = w
    \/ job[i].at = "work" /\ job[i].load = w

\* A threadpool is active whenever a kernel is scheduled.
AllActive == \A c \in Callers : None \notin ActivePools[c]

-----------------------------------------------------------------------------
(* The inductive invariant.                                                 *)

\* One frame at a time, that of the caller in _mtx, and no job without one.
FrameInv ==
    /\ \A c \in Callers : pc[c] \in Busy <=> _mtx = c
    /\ _mtx = None => \A i \in Jobs : job[i].at = "none"
    /\ _mtx # None => 0 \in Jobs /\ job[0].at # "none"

\* Who runs a job: a worker, or the caller; and nobody runs two.
JobInv ==
    /\ \A i \in Jobs :
        /\ job[i].by \in Workers \cup {_mtx, None}
        /\ job[i].at \in {"none", "queued"} => job[i].by = None
        /\ job[i].at \in {"work", "next", "leave", "wake"} => job[i].by # None
        /\ job[i].at = "done" => job[i].by \notin Workers
    /\ \A i, j \in Jobs : i # j /\ job[i].by # None => job[i].by # job[j].by

\* A caller without use for the pool has a single job, its own.
AloneInv ==
    \A c \in Callers : pc[c] = "alone" =>
        /\ job[0].at \in {"work", "next", "done"}
        /\ job[0].by = c
        /\ \A i \in Jobs \ {0} : job[i].at = "none"

\* The word of the barrier counts the jobs that have yet to notify it, and says
\* whether the caller waits; only the last of them wakes it.
BarrierInv ==
    \A c \in Callers :
        /\ pc[c] \in {"posted", "wait"} =>
            /\ tp # None
            /\ \A i \in Jobs : job[i].at # "wake"
            /\ tp \in Async => state_ = Cardinality(Pending) /\ notified_ = FALSE
        /\ pc[c] \in {"wait", "sleep"} => tp \in Async
        /\ pc[c] = "sleep" =>
            /\ state_ = waiter_mask_ + Cardinality(Pending)
            /\ notified_ => \A i \in Jobs : job[i].at \in {"none", "done"}
            /\ \A i \in Jobs : job[i].at = "wake" =>
                    \A j \in Jobs \ {i} : job[j].at \in {"none", "done"}
        /\ pc[c] = "return" => \A i \in Jobs : job[i].at \in {"none", "done"}

\* The threadpool is active in a worker from when it takes a job to when it
\* leaves it, and all along in the caller, which therefore leaves it so.
ActiveInv ==
    /\ \A t \in Workers : (\A i \in Jobs : job[i].by # t) => active[t] = None
    /\ \A i \in Jobs : job[i].by \in Workers =>
        /\ job[i].at = "wake" => active[job[i].by] = None
        /\ job[i].at # "wake" => active[job[i].by] = tp /\ tp # None /\ job[i].main = FALSE
    /\ \A c \in Callers : pc[c] \in {"posted", "wait", "sleep", "return"} =>
        /\ active[c] = tp
        /\ \A i \in Jobs : job[i].at \in {"work", "next", "leave"} /\ job[i].by = c =>
                job[i].main = TRUE

\* A workload that a job holds has been handed out, to this job alone, and was
\* not called yet; when a job ends, all have been handed out.
LoadInv ==
    /\ \A i \in Jobs, w \in Nat : Holds(i, w) =>
        /\ w < size /\ w < counter /\ ran[w] = 0
        /\ \A j \in Jobs : Holds(j, w) => j = i
    /\ \A w \in Jobs : ran[w] \in {0, 1} /\ (ran[w] = 1 => w < counter)
    /\ \A i \in Jobs : job[i].at \in {"leave", "wake", "done"} => size <= counter

\* A workload that has been handed out and was not called is held by a job.
CoverInv ==
    AllActive =>
        /\ \A c \in Callers : pc[c] = "run" => active[c] # None
        /\ \A w \in Jobs : w < size /\ w < counter /\ ran[w] = 0 =>
                \E i \in Jobs : Holds(i, w)

IInv ==
    /\ TypeOK
    /\ FrameInv
    /\ JobInv
    /\ AloneInv
    /\ BarrierInv
    /\ ActiveInv
    /\ LoadInv
    /\ CoverInv

-----------------------------------------------------------------------------
(* Facts about the state.                                                   *)

\* The jobs that have yet to notify are at most as many as the workloads.
LEMMA PendingFinite ==
    /\ IsFiniteSet(Pending)
    /\ Cardinality(Pending) \in Nat
    /\ Cardinality(Pending) <= MaxWorkloads
<1>1. IsFiniteSet(Jobs) /\ Cardinality(Jobs) = MaxWorkloads
  <2>1. 0 \in Int /\ MaxWorkloads - 1 \in Int /\ MaxWorkloads \in Nat
    BY PoolsAssumption
  <2> QED
    BY <2>1, FS_Interval DEF Jobs
<1>2. Pending \subseteq Jobs
  BY DEF Pending
<1>3. IsFiniteSet(Pending) /\ Cardinality(Pending) <= Cardinality(Jobs)
  BY ONLY <1>1, <1>2, FS_Subset
<1> QED
  BY ONLY <1>1, <1>3, FS_CardinalityType

\* A job that is under way belongs to the frame of a caller that has not
\* finished; one on its own runs it itself.
LEMMA JobHasFrame ==
    ASSUME IInv, NEW i \in Jobs, job[i].at \notin {"none", "done"}
    PROVE  /\ _mtx \in Callers
           /\ pc[_mtx] \in {"alone", "posted", "wait", "sleep"}
           /\ pc[_mtx] = "alone" =>
                i = 0 /\ job[i].by = _mtx /\ job[i].at \in {"work", "next"}
           /\ pc[_mtx] # "alone" => tp # None
<1>1. _mtx \in Callers /\ pc[_mtx] \in Busy
  BY DEF IInv, TypeOK, FrameInv
<1>2. pc[_mtx] # "return"
  BY <1>1 DEF IInv, BarrierInv
<1>3. pc[_mtx] = "alone" =>
        i = 0 /\ job[i].by = _mtx /\ job[i].at \in {"work", "next"}
  BY <1>1 DEF IInv, AloneInv
<1>4. pc[_mtx] \in {"posted", "wait", "sleep"} => tp # None
  BY <1>1, PoolsAssumption, DistinctAssumption DEF IInv, BarrierInv
<1> QED
  BY ONLY <1>1, <1>2, <1>3, <1>4 DEF Busy

\* What a step must leave alone so that the threadpool stays active where it was.
LEMMA ActiveKept ==
    ASSUME ActiveInv, UNCHANGED <<active, pc, tp>>,
           \A j \in Jobs : job'[j].by \in Workers => job'[j] = job[j],
           \A j \in Jobs : job'[j].at \in {"work", "next", "leave"} => job'[j] = job[j],
           \A t \in Workers : (\A j \in Jobs : job'[j].by # t) => active[t] = None
    PROVE  ActiveInv'
<1>1. \A j \in Jobs : job'[j].by \in Workers =>
        /\ job'[j].at = "wake" => active'[job'[j].by] = None
        /\ job'[j].at # "wake" => active'[job'[j].by] = tp' /\ tp' # None /\ job'[j].main = FALSE
  BY DEF ActiveInv
<1>2. \A c \in Callers : pc'[c] \in {"posted", "wait", "sleep", "return"} =>
        /\ active'[c] = tp'
        /\ \A j \in Jobs : job'[j].at \in {"work", "next", "leave"} /\ job'[j].by = c =>
                job'[j].main = TRUE
  BY DEF ActiveInv
<1> QED
  BY <1>1, <1>2, Zenon DEF ActiveInv

-----------------------------------------------------------------------------
(* Every step keeps the invariant.                                          *)

\* schedule and schedule_op: the caller has a threadpool, and no frame yet.
LEMMA SchedulePreserves ==
    ASSUME IInv, NEW c \in Callers, NEW p \in Pools \cup {None}, Schedule(c, p)
    PROVE  IInv'
<1>a. /\ pc[c] = "idle" /\ pc' = [pc EXCEPT ![c] = "run"]
      /\ p \in ActivePools[c] /\ active' = [active EXCEPT ![c] = p]
      /\ UNCHANGED <<_mtx, tp, size, counter, job, ran, state_, notified_>>
  BY DEF Schedule, Goto, frameVars, barrierVars
<1>t. _num_threads' \in Nat \ {0} /\ flag_once' \in [Callers -> BOOLEAN]
  <2>1. \A q \in Pools : MaxThreads(q) \in Nat \ {0}
    BY PoolsAssumption DEF MaxThreads, MaxOf
  <2>2. _num_threads' = _num_threads \/ _num_threads' = 1 \/ (p # None /\ _num_threads' = MaxThreads(p))
    BY DEF Schedule
  <2>3. flag_once' = flag_once \/ flag_once' = [flag_once EXCEPT ![c] = TRUE]
    BY DEF Schedule
  <2>4. _num_threads' \in Nat \ {0}
    BY <2>1, <2>2 DEF IInv, TypeOK
  <2>5. flag_once' \in [Callers -> BOOLEAN]
    BY <2>3, Zenon DEF IInv, TypeOK
  <2> QED
    BY ONLY <2>4, <2>5
<1>b. Pending' = Pending /\ (\A i \in Jobs, w \in Nat : Holds(i, w)' = Holds(i, w))
  BY <1>a DEF Pending, Holds
<1>c. c \in Threads /\ c \notin Workers /\ _mtx # c
  BY <1>a, DistinctAssumption DEF IInv, FrameInv, Busy, Threads
<1> HIDE DEF Schedule
<1>1. TypeOK'
  BY <1>a, <1>b, <1>c, <1>t, Zenon DEF IInv, TypeOK, BarrierTypeOK
<1>2. FrameInv'
  BY <1>a, <1>c DEF IInv, TypeOK, FrameInv, Busy
<1>3. JobInv'
  BY <1>a, <1>b, <1>c, <1>t DEF IInv, TypeOK, JobInv
<1>4. AloneInv'
  BY <1>a, <1>b, <1>c, <1>t DEF IInv, TypeOK, AloneInv
<1>5. BarrierInv'
  BY <1>a, <1>b, <1>c, <1>t DEF IInv, TypeOK, BarrierInv
<1>6. ActiveInv'
  BY <1>a, <1>c DEF IInv, TypeOK, ActiveInv, Threads
<1>7. LoadInv'
  BY <1>a, <1>b DEF IInv, LoadInv
<1>8. CoverInv'
  BY <1>a, <1>b, <1>c DEF IInv, TypeOK, CoverInv, AllActive, Jobs
<1> QED
  BY ONLY <1>1, <1>2, <1>3, <1>4, <1>5, <1>6, <1>7, <1>8 DEF IInv

\* process_workloads has returned: the caller's threadpool is active again.
LEMMA AloneDonePreserves ==
    ASSUME IInv, NEW c \in Callers, AloneDone(c)
    PROVE  IInv'
<1>a. /\ pc[c] = "alone" /\ job[0].at = "done" /\ pc' = [pc EXCEPT ![c] = "return"]
      /\ active' = [active EXCEPT ![c] = tp]
      /\ UNCHANGED <<_num_threads, _mtx, flag_once, tp, size, counter, job, ran>>
      /\ UNCHANGED <<state_, notified_>>
  BY DEF AloneDone, Goto, CallerUnchanged, frameVars, barrierVars
<1>b. Pending' = Pending /\ (\A i \in Jobs, w \in Nat : Holds(i, w)' = Holds(i, w))
  BY <1>a DEF Pending, Holds
<1>c. c \in Threads /\ c \notin Workers /\ _mtx = c
  BY <1>a, DistinctAssumption DEF IInv, FrameInv, Busy, Threads
<1>d. \A i \in Jobs : job[i].at \in {"none", "done"}
  BY <1>a DEF IInv, AloneInv
<1> HIDE DEF AloneDone
<1>1. TypeOK'
  BY <1>a, <1>c DEF IInv, TypeOK, BarrierTypeOK
<1>2. FrameInv'
  BY <1>a, <1>c DEF IInv, TypeOK, FrameInv, Busy
<1>3. JobInv'
  BY <1>a DEF IInv, JobInv
<1>4. AloneInv'
  BY <1>a, <1>c DEF IInv, TypeOK, AloneInv
<1>5. BarrierInv'
  BY <1>a, <1>b, <1>c, <1>d, Zenon DEF IInv, TypeOK, FrameInv, Busy, BarrierInv
<1>6. ActiveInv'
  BY <1>a, <1>c, <1>d DEF IInv, TypeOK, FrameInv, Busy, ActiveInv, Threads
<1>7. LoadInv'
  BY <1>a, <1>b DEF IInv, LoadInv
<1>8. CoverInv'
  BY <1>a, <1>b, <1>c DEF IInv, TypeOK, CoverInv, Jobs
<1> QED
  BY ONLY <1>1, <1>2, <1>3, <1>4, <1>5, <1>6, <1>7, <1>8, Zenon DEF IInv

\* parallel_for returns, after its jobs unless the pool is asynchronous.
LEMMA ParallelForReturnsPreserves ==
    ASSUME IInv, NEW c \in Callers, ParallelForReturns(c)
    PROVE  IInv'
<1>a. /\ pc[c] = "posted"
      /\ \/ tp \in Async /\ pc' = [pc EXCEPT ![c] = "wait"]
         \/ /\ \A i \in Jobs : job[i].at \in {"none", "done"}
            /\ pc' = [pc EXCEPT ![c] = "return"]
      /\ UNCHANGED <<_num_threads, _mtx, flag_once, tp, size, counter, job, ran>>
      /\ UNCHANGED <<active, state_, notified_>>
  BY DEF ParallelForReturns, Goto, CallerUnchanged, frameVars, barrierVars
<1>b. Pending' = Pending /\ (\A i \in Jobs, w \in Nat : Holds(i, w)' = Holds(i, w))
  BY <1>a DEF Pending, Holds
<1>c. c \in Threads /\ c \notin Workers /\ _mtx = c
  BY <1>a, DistinctAssumption DEF IInv, FrameInv, Busy, Threads
<1> HIDE DEF ParallelForReturns
<1>1. TypeOK'
  BY <1>a, <1>c DEF IInv, TypeOK, BarrierTypeOK
<1>2. FrameInv'
  BY <1>a, <1>c DEF IInv, TypeOK, FrameInv, Busy
<1>3. JobInv'
  BY <1>a DEF IInv, JobInv
<1>4. AloneInv'
  BY <1>a, <1>c DEF IInv, TypeOK, AloneInv
<1>5. BarrierInv'
  BY <1>a, <1>b, <1>c DEF IInv, TypeOK, FrameInv, Busy, BarrierInv
<1>6. ActiveInv'
  BY <1>a, <1>c DEF IInv, TypeOK, ActiveInv, Threads
<1>7. LoadInv'
  BY <1>a, <1>b DEF IInv, LoadInv
<1>8. CoverInv'
  BY <1>a, <1>b, <1>c DEF IInv, TypeOK, CoverInv, Jobs
<1> QED
  BY ONLY <1>1, <1>2, <1>3, <1>4, <1>5, <1>6, <1>7, <1>8 DEF IInv

\* wait: over if nobody is left to notify, and asleep otherwise.
LEMMA WaitPreserves ==
    ASSUME IInv, NEW c \in Callers, Wait(c)
    PROVE  IInv'
<1>a. /\ pc[c] = "wait"
      /\ pc' = [pc EXCEPT ![c] = IF state_ = 0 THEN "return" ELSE "sleep"]
      /\ state_' = waiter_mask_ + (state_ % waiter_mask_)
      /\ UNCHANGED <<_num_threads, _mtx, flag_once, tp, size, counter, job, ran>>
      /\ UNCHANGED <<active, notified_>>
  BY Zenon DEF Wait, WaitOr, Goto, CallerUnchanged, frameVars
<1>b. Pending' = Pending /\ (\A i \in Jobs, w \in Nat : Holds(i, w)' = Holds(i, w))
  BY <1>a DEF Pending, Holds
<1>c. c \in Threads /\ c \notin Workers /\ _mtx = c
  BY <1>a, DistinctAssumption DEF IInv, FrameInv, Busy, Threads
<1>d. /\ state_ = Cardinality(Pending) /\ notified_ = FALSE /\ tp \in Async
      /\ \A i \in Jobs : job[i].at # "wake"
  BY <1>a DEF IInv, BarrierInv
<1>e. state_' = waiter_mask_ + Cardinality(Pending)
  BY <1>a, <1>d, PendingFinite, PoolsAssumption, MaskAssumption
<1>f. state_ = 0 => \A i \in Jobs : job[i].at \in {"none", "done"}
  <2>1. state_ = 0 => Pending = {}
    BY <1>d, PendingFinite, FS_EmptySet, Zenon
  <2> QED
    BY <2>1, <1>d DEF IInv, TypeOK, JobSteps, Pending
<1> HIDE DEF Wait
<1>1. TypeOK'
  BY <1>a, <1>e, PendingFinite, PoolsAssumption, MaskAssumption DEF IInv, TypeOK, BarrierTypeOK
<1>2. FrameInv'
  BY <1>a, <1>c DEF IInv, TypeOK, FrameInv, Busy
<1>3. JobInv'
  BY <1>a DEF IInv, JobInv
<1>4. AloneInv'
  BY <1>a, <1>c, Zenon DEF IInv, TypeOK, AloneInv
<1>5. BarrierInv'
  BY <1>a, <1>b, <1>c, <1>d, <1>e, <1>f, Zenon DEF IInv, TypeOK, FrameInv, Busy, BarrierInv
<1>6. ActiveInv'
  BY <1>a, <1>c DEF IInv, TypeOK, ActiveInv, Threads
<1>7. LoadInv'
  BY <1>a, <1>b DEF IInv, LoadInv
<1>8. CoverInv'
  BY <1>a, <1>b, <1>c DEF IInv, TypeOK, CoverInv, Jobs
<1> QED
  BY ONLY <1>1, <1>2, <1>3, <1>4, <1>5, <1>6, <1>7, <1>8 DEF IInv

\* The condition variable lets the caller go once it has been notified.
LEMMA WakeUpPreserves ==
    ASSUME IInv, NEW c \in Callers, WakeUp(c)
    PROVE  IInv'
<1>a. /\ pc[c] = "sleep" /\ notified_ /\ pc' = [pc EXCEPT ![c] = "return"]
      /\ UNCHANGED <<_num_threads, _mtx, flag_once, tp, size, counter, job, ran>>
      /\ UNCHANGED <<active, state_, notified_>>
  BY DEF WakeUp, Awake, Goto, CallerUnchanged, frameVars, barrierVars
<1>b. Pending' = Pending /\ (\A i \in Jobs, w \in Nat : Holds(i, w)' = Holds(i, w))
  BY <1>a DEF Pending, Holds
<1>c. c \in Threads /\ c \notin Workers /\ _mtx = c
  BY <1>a, DistinctAssumption DEF IInv, FrameInv, Busy, Threads
<1> HIDE DEF WakeUp
<1>1. TypeOK'
  BY <1>a, <1>c DEF IInv, TypeOK, BarrierTypeOK
<1>2. FrameInv'
  BY <1>a, <1>c DEF IInv, TypeOK, FrameInv, Busy
<1>3. JobInv'
  BY <1>a DEF IInv, JobInv
<1>4. AloneInv'
  BY <1>a, <1>c, Zenon DEF IInv, TypeOK, AloneInv
<1>5. BarrierInv'
  BY <1>a, <1>b, <1>c, Zenon DEF IInv, TypeOK, FrameInv, Busy, BarrierInv
<1>6. ActiveInv'
  BY <1>a, <1>c DEF IInv, TypeOK, ActiveInv, Threads
<1>7. LoadInv'
  BY <1>a, <1>b DEF IInv, LoadInv
<1>8. CoverInv'
  BY <1>a, <1>b, <1>c DEF IInv, TypeOK, CoverInv, Jobs
<1> QED
  BY ONLY <1>1, <1>2, <1>3, <1>4, <1>5, <1>6, <1>7, <1>8 DEF IInv

\* A thread that the application needs no more has no frame.
LEMMA ExitPreserves ==
    ASSUME IInv, NEW c \in Callers, Exit(c)
    PROVE  IInv'
<1>a. /\ pc[c] = "idle" /\ pc' = [pc EXCEPT ![c] = "exited"]
      /\ UNCHANGED <<_num_threads, _mtx, flag_once, tp, size, counter, job, ran>>
      /\ UNCHANGED <<active, state_, notified_>>
  BY DEF Exit, Goto, CallerUnchanged, frameVars, barrierVars
<1>b. Pending' = Pending /\ (\A i \in Jobs, w \in Nat : Holds(i, w)' = Holds(i, w))
  BY <1>a DEF Pending, Holds
<1>c. c \in Threads /\ c \notin Workers /\ _mtx # c
  BY <1>a, DistinctAssumption DEF IInv, FrameInv, Busy, Threads
<1> HIDE DEF Exit
<1>1. TypeOK'
  BY <1>a, <1>c DEF IInv, TypeOK, BarrierTypeOK
<1>2. FrameInv'
  BY <1>a, <1>c DEF IInv, TypeOK, FrameInv, Busy
<1>3. JobInv'
  BY <1>a DEF IInv, JobInv
<1>4. AloneInv'
  BY <1>a, <1>c, Zenon DEF IInv, TypeOK, AloneInv
<1>5. BarrierInv'
  BY <1>a, <1>b, <1>c DEF IInv, TypeOK, FrameInv, Busy, BarrierInv
<1>6. ActiveInv'
  BY <1>a, <1>c DEF IInv, TypeOK, ActiveInv, Threads
<1>7. LoadInv'
  BY <1>a, <1>b DEF IInv, LoadInv
<1>8. CoverInv'
  BY <1>a, <1>b, <1>c DEF IInv, TypeOK, CoverInv, Jobs
<1> QED
  BY ONLY <1>1, <1>2, <1>3, <1>4, <1>5, <1>6, <1>7, <1>8 DEF IInv

\* run_workloads returns: the frame is gone and _mtx is free.
LEMMA ReturnPreserves ==
    ASSUME IInv, NEW c \in Callers, Return(c)
    PROVE  IInv'
<1>a. /\ pc[c] = "return" /\ pc' = [pc EXCEPT ![c] = "idle"]
      /\ _mtx' = None /\ tp' = None /\ size' = 0 /\ counter' = 0
      /\ active' = [active EXCEPT ![c] = None]
      /\ job' = [i \in Jobs |-> NoJob]
      /\ ran' = [w \in Jobs |-> 0]
      /\ state_' = 0 /\ notified_' = FALSE
      /\ UNCHANGED <<_num_threads, flag_once>>
  BY DEF Return, Goto
<1>b. \A i \in Jobs : job'[i].at = "none" /\ job'[i].by = None
  BY <1>a DEF NoJob
<1>c. c \in Threads /\ c \notin Workers /\ _mtx = c
  BY <1>a, DistinctAssumption, Zenon DEF IInv, FrameInv, Busy, Threads
<1>d. \A t \in Workers, i \in Jobs : job[i].by # t
  BY <1>a, DistinctAssumption DEF IInv, BarrierInv, JobInv
<1> HIDE DEF Return
<1>1. TypeOK'
  <2>1. BarrierTypeOK'
    <3>1. 0 \in 0..(2 * waiter_mask_ - 1)
      BY MaskAssumption
    <3> QED
      BY ONLY <1>a, <3>1, Zenon DEF BarrierTypeOK
  <2>2. NoJob \in [at : JobSteps, load : Nat, by : Threads \cup {None}, main : BOOLEAN]
    BY DEF NoJob, JobSteps
  <2>3. size' \in 0..MaxWorkloads
    BY <1>a, PoolsAssumption
  <2> QED
    BY <1>a, <2>1, <2>2, <2>3, Zenon DEF IInv, TypeOK
<1>2. FrameInv'
  BY <1>a, <1>b, <1>c, DistinctAssumption DEF IInv, TypeOK, FrameInv, Busy
<1>3. JobInv'
  BY <1>a, <1>b, DistinctAssumption, Zenon DEF JobInv
<1>4. AloneInv'
  BY <1>a, <1>c DEF IInv, TypeOK, FrameInv, Busy, AloneInv
<1>5. BarrierInv'
  BY <1>a, <1>c, Zenon DEF IInv, TypeOK, FrameInv, Busy, BarrierInv
<1>6. ActiveInv'
  <2>1. \A t \in Workers : active'[t] = None
    BY <1>a, <1>c, <1>d DEF IInv, TypeOK, ActiveInv, Threads
  <2>2. \A i \in Jobs : job'[i].by \notin Workers
    BY <1>b, DistinctAssumption
  <2>3. \A d \in Callers : pc'[d] \notin {"posted", "wait", "sleep", "return"}
    BY <1>a, <1>c DEF IInv, TypeOK, FrameInv, Busy
  <2> QED
    BY ONLY <2>1, <2>2, <2>3, Zenon DEF ActiveInv
<1>7. LoadInv'
  BY <1>a, <1>b DEF LoadInv, Holds
<1>8. CoverInv'
  BY <1>a, <1>c DEF IInv, TypeOK, CoverInv, Jobs, Threads
<1> QED
  BY ONLY <1>1, <1>2, <1>3, <1>4, <1>5, <1>6, <1>7, <1>8 DEF IInv

\* A thread takes a job: its threadpool becomes active.
LEMMA TakeJobPreserves ==
    ASSUME IInv, NEW i \in Jobs, NEW t \in Threads, TakeJob(i, t)
    PROVE  IInv'
<1>a. /\ job[i].at = "queued"
      /\ t \in Workers \/ t = _mtx
      /\ \A j \in Jobs : job[j].by # t
      /\ active' = [active EXCEPT ![t] = tp]
      /\ UNCHANGED <<_num_threads, _mtx, flag_once, pc, tp, size>>
      /\ UNCHANGED <<counter, ran, state_, notified_>>
  BY Zenon DEF TakeJob, JobUnchanged, barrierVars
<1>c. /\ _mtx \in Callers
      /\ pc[_mtx] \in {"alone", "posted", "wait", "sleep"}
      /\ pc[_mtx] = "alone" =>
            i = 0 /\ job[i].by = _mtx /\ job[i].at \in {"work", "next"}
      /\ pc[_mtx] # "alone" => tp # None
  BY <1>a, JobHasFrame, Zenon
<1>b. /\ job' \in [Jobs -> [at : JobSteps, load : Nat,
                           by : Threads \cup {None}, main : BOOLEAN]]
      /\ job'[i].at = "work" /\ job'[i].load = i /\ job'[i].by = t
      /\ job'[i].main = (active[t] = tp)
      /\ \A j \in Jobs \ {i} : job'[j] = job[j]
  BY DEF IInv, TypeOK, TakeJob, Jobs, JobSteps
<1>d. Pending' = Pending
  BY <1>a, <1>b DEF Pending
<1>e. \A j \in Jobs, w \in Nat : Holds(j, w)' = Holds(j, w)
  BY <1>a, <1>b DEF Holds
<1>f. t # None /\ (t = _mtx => t \notin Workers)
  BY <1>c, DistinctAssumption DEF Threads
<1> HIDE DEF TakeJob
<1>1. TypeOK'
  BY <1>a, <1>b, Zenon DEF IInv, TypeOK, BarrierTypeOK
<1>2. FrameInv'
  BY <1>a, <1>b, <1>c, Zenon DEF IInv, FrameInv
<1>3. JobInv'
  BY <1>a, <1>b, <1>c, <1>f DEF IInv, JobInv
<1>4. AloneInv'
  BY <1>a, <1>b, <1>c, Zenon DEF IInv, AloneInv
<1>5. BarrierInv'
  BY <1>a, <1>b, <1>c, <1>d DEF IInv, FrameInv, Busy, BarrierInv
<1>6. ActiveInv'
  <2>1. /\ active'[t] = tp
        /\ \A u \in Threads : u # t => active'[u] = active[u]
    BY <1>a, Zenon DEF IInv, TypeOK, Threads
  <2>2. pc[_mtx] # "alone" /\ tp # None /\ active[_mtx] = tp
        /\ (t \in Workers => active[t] = None)
    BY <1>a, <1>c, Zenon DEF IInv, ActiveInv
  <2>3. \A u \in Workers : (\A j \in Jobs : job'[j].by # u) => active'[u] = None
    BY <1>a, <1>b, <2>1, DistinctAssumption DEF IInv, JobInv, ActiveInv, Threads
  <2>4. \A j \in Jobs : job'[j].by \in Workers =>
          /\ job'[j].at = "wake" => active'[job'[j].by] = None
          /\ job'[j].at # "wake" => active'[job'[j].by] = tp /\ tp # None /\ job'[j].main = FALSE
    BY <1>a, <1>b, <2>1, <2>2 DEF IInv, ActiveInv, Threads
  <2>5. \A d \in Callers : pc[d] \in {"posted", "wait", "sleep", "return"} =>
          /\ active'[d] = tp
          /\ \A j \in Jobs : job'[j].at \in {"work", "next", "leave"} /\ job'[j].by = d =>
                  job'[j].main = TRUE
    BY <1>a, <1>b, <1>c, <1>f, <2>1, <2>2, DistinctAssumption DEF IInv, FrameInv, Busy, ActiveInv, Threads
  <2> QED
    BY ONLY <1>a, <2>3, <2>4, <2>5 DEF ActiveInv
<1>7. LoadInv'
  BY <1>a, <1>b, <1>e DEF IInv, LoadInv
<1>8. CoverInv'
  BY <1>a, <1>c, <1>e DEF IInv, TypeOK, CoverInv, FrameInv, Busy, Jobs, AllActive
<1> QED
  BY ONLY <1>1, <1>2, <1>3, <1>4, <1>5, <1>6, <1>7, <1>8, Zenon DEF IInv

\* A job calls the workload it holds, which nobody has called.
LEMMA CallWorkloadPreserves ==
    ASSUME IInv, NEW i \in Jobs, CallWorkload(i)
    PROVE  IInv'
<1>a. /\ job[i].at = "work"
      /\ ran' = [ran EXCEPT ![job[i].load] = @ + 1]
      /\ UNCHANGED <<_num_threads, _mtx, flag_once, pc, tp, size>>
      /\ UNCHANGED <<counter, active, state_, notified_>>
  BY Zenon DEF CallWorkload, JobUnchanged, barrierVars
<1>c. /\ _mtx \in Callers
      /\ pc[_mtx] \in {"alone", "posted", "wait", "sleep"}
      /\ pc[_mtx] = "alone" =>
            i = 0 /\ job[i].by = _mtx /\ job[i].at \in {"work", "next"}
      /\ pc[_mtx] # "alone" => tp # None
  BY <1>a, JobHasFrame
<1>b. /\ job' \in [Jobs -> [at : JobSteps, load : Nat,
                           by : Threads \cup {None}, main : BOOLEAN]]
      /\ job'[i].at = "next" /\ job'[i].load = job[i].load
      /\ job'[i].by = job[i].by /\ job'[i].main = job[i].main
      /\ \A j \in Jobs \ {i} : job'[j] = job[j]
  BY DEF IInv, TypeOK, CallWorkload, JobSteps
<1>d. Pending' = Pending
  BY <1>a, <1>b, Zenon DEF Pending
<1>e. \A j \in Jobs, w \in Nat : Holds(j, w)' <=> (j # i /\ Holds(j, w))
  BY <1>a, <1>b, Zenon DEF Holds
<1>f. /\ job[i].load \in Jobs /\ Holds(i, job[i].load)
      /\ job[i].load < counter /\ ran[job[i].load] = 0
      /\ \A j \in Jobs : Holds(j, job[i].load) => j = i
  <2>1. job[i].load \in Nat /\ Holds(i, job[i].load)
    BY <1>a, Zenon DEF IInv, TypeOK, Holds
  <2>2. /\ job[i].load < size /\ job[i].load < counter /\ ran[job[i].load] = 0
        /\ \A j \in Jobs : Holds(j, job[i].load) => j = i
    BY <2>1 DEF IInv, LoadInv
  <2>3. job[i].load \in Jobs
    BY <2>1, <2>2, PoolsAssumption DEF IInv, TypeOK, Jobs
  <2> QED
    BY ONLY <2>1, <2>2, <2>3, Zenon
<1>g. /\ ran'[job[i].load] = 1
      /\ \A w \in Jobs \ {job[i].load} : ran'[w] = ran[w]
      /\ ran' \in [Jobs -> Nat]
  BY <1>a, <1>f DEF IInv, TypeOK
<1> HIDE DEF CallWorkload
<1>1. TypeOK'
  BY <1>a, <1>b, <1>g, Zenon DEF IInv, TypeOK, BarrierTypeOK
<1>2. FrameInv'
  BY <1>a, <1>b, <1>c, Zenon DEF IInv, FrameInv
<1>3. JobInv'
  BY <1>a, <1>b, <1>c DEF IInv, JobInv
<1>4. AloneInv'
  BY <1>a, <1>b, <1>c DEF IInv, AloneInv
<1>5. BarrierInv'
  BY <1>a, <1>b, <1>c, <1>d DEF IInv, FrameInv, Busy, BarrierInv
<1>6. ActiveInv'
  <2>0. ActiveInv
    BY Zenon DEF IInv
  <2>1. \A j \in Jobs :
          /\ job'[j].by = job[j].by /\ job'[j].main = job[j].main
          /\ job'[j].at = "wake" <=> job[j].at = "wake"
          /\ job'[j].at \in {"work", "next", "leave"} => job[j].at \in {"work", "next", "leave"}
    BY <1>a, <1>b
  <2>2. active' = active /\ pc' = pc /\ tp' = tp
    BY <1>a
  <2> QED
    BY ONLY <2>0, <2>1, <2>2 DEF ActiveInv
<1>7. LoadInv'
  <2>1. \A j \in Jobs, w \in Nat : Holds(j, w)' =>
          /\ w < size' /\ w < counter' /\ ran'[w] = 0
          /\ \A k \in Jobs : Holds(k, w)' => k = j
    <3> SUFFICES ASSUME NEW j \in Jobs, NEW w \in Nat, Holds(j, w)'
                 PROVE  /\ w < size' /\ w < counter' /\ ran'[w] = 0
                        /\ \A k \in Jobs : Holds(k, w)' => k = j
      OBVIOUS
    <3>1. j # i /\ Holds(j, w)
      BY <1>e, Zenon
    <3>2. /\ w < size /\ w < counter /\ ran[w] = 0
          /\ \A k \in Jobs : Holds(k, w) => k = j
      BY <3>1, Zenon DEF IInv, LoadInv
    <3>3. w # job[i].load
      BY <3>1, <1>f, Zenon
    <3>4. w \in Jobs
      BY <3>2, PoolsAssumption DEF IInv, TypeOK, Jobs
    <3> QED
      BY <3>2, <3>3, <3>4, <1>a, <1>e, <1>g, Zenon
  <2>2. \A w \in Jobs : ran'[w] \in {0, 1} /\ (ran'[w] = 1 => w < counter')
    BY <1>a, <1>f, <1>g, Zenon DEF IInv, LoadInv
  <2>3. \A j \in Jobs : job'[j].at \in {"leave", "wake", "done"} => size' <= counter'
    BY <1>a, <1>b DEF IInv, LoadInv
  <2> QED
    BY ONLY <2>1, <2>2, <2>3, Zenon DEF LoadInv
<1>8. CoverInv'
  <2> SUFFICES ASSUME AllActive
               PROVE  /\ \A c \in Callers : pc'[c] = "run" => active'[c] # None
                      /\ \A w \in Jobs : w < size' /\ w < counter' /\ ran'[w] = 0 =>
                              \E j \in Jobs : Holds(j, w)'
    BY DEF CoverInv, AllActive
  <2>1. \A c \in Callers : pc'[c] = "run" => active'[c] # None
    BY <1>a DEF IInv, CoverInv
  <2>2. ASSUME NEW w \in Jobs, w < size', w < counter', ran'[w] = 0
        PROVE  \E j \in Jobs : Holds(j, w)'
    <3>1. w # job[i].load /\ ran[w] = 0
      BY <2>2, <1>g
    <3>2. PICK j \in Jobs : Holds(j, w)
      BY <2>2, <3>1, <1>a, Zenon DEF IInv, CoverInv
    <3>3. j # i
      BY <3>1, <3>2, <1>a, Zenon DEF Holds
    <3> QED
      BY <3>2, <3>3, <1>e DEF Jobs
  <2> QED
    BY ONLY <2>1, <2>2
<1> QED
  BY ONLY <1>1, <1>2, <1>3, <1>4, <1>5, <1>6, <1>7, <1>8 DEF IInv

\* A job gets the next workload, which nobody else gets, or ends if there is none.
LEMMA GetNextPreserves ==
    ASSUME IInv, NEW i \in Jobs, GetNext(i)
    PROVE  IInv'
<1>a. /\ job[i].at = "next"
      /\ counter' = counter + 1
      /\ UNCHANGED <<_num_threads, _mtx, flag_once, pc, tp, size>>
      /\ UNCHANGED <<ran, active, state_, notified_>>
  BY Zenon DEF GetNext, JobUnchanged, barrierVars
<1>c. /\ _mtx \in Callers
      /\ pc[_mtx] \in {"alone", "posted", "wait", "sleep"}
      /\ pc[_mtx] = "alone" =>
            i = 0 /\ job[i].by = _mtx /\ job[i].at \in {"work", "next"}
      /\ pc[_mtx] # "alone" => tp # None
  BY <1>a, JobHasFrame
<1>b. /\ job' \in [Jobs -> [at : JobSteps, load : Nat,
                           by : Threads \cup {None}, main : BOOLEAN]]
      /\ job'[i].at = IF counter < size THEN "work"
                      ELSE IF pc[_mtx] = "alone" THEN "done" ELSE "leave"
      /\ job'[i].load = counter
      /\ job'[i].by = job[i].by /\ job'[i].main = job[i].main
      /\ \A j \in Jobs \ {i} : job'[j] = job[j]
  BY DEF IInv, TypeOK, GetNext, JobSteps
<1>d. pc[_mtx] # "alone" => Pending' = Pending
  BY <1>a, <1>b, Zenon DEF Pending
<1>e. \A j \in Jobs, w \in Nat :
        Holds(j, w)' <=> (j # i /\ Holds(j, w)) \/ (j = i /\ w = counter /\ counter < size)
  BY <1>a, <1>b, Zenon DEF Holds
<1>f. counter \in Nat /\ size \in Nat /\ (\A w \in Nat : ~ Holds(i, w))
  BY <1>a, PoolsAssumption DEF IInv, TypeOK, Holds
<1>g. _mtx \notin Workers
  BY <1>c, DistinctAssumption, Zenon
<1> HIDE DEF GetNext
<1>1. TypeOK'
  BY <1>a, <1>b, <1>f DEF IInv, TypeOK, BarrierTypeOK
<1>2. FrameInv'
  BY <1>a, <1>b, <1>c, Zenon DEF IInv, FrameInv
<1>3. JobInv'
  BY <1>a, <1>b, <1>c, <1>g DEF IInv, JobInv
<1>4. AloneInv'
  BY <1>a, <1>b, <1>c DEF IInv, FrameInv, Busy, AloneInv
<1>5. BarrierInv'
  <2>0. BarrierInv
    BY Zenon DEF IInv
  <2>1. \A d \in Callers : d # _mtx => pc[d] \notin Busy
    BY <1>c, Zenon DEF IInv, FrameInv
  <2>2. pc[_mtx] # "alone" => \A j \in Jobs :
          /\ job'[j].at = "wake" <=> job[j].at = "wake"
          /\ job'[j].at \in {"none", "done"} <=> job[j].at \in {"none", "done"}
    BY <1>a, <1>b
  <2>3. UNCHANGED <<pc, tp, state_, notified_>>
    BY <1>a, Zenon
  <2>4. CASE pc[_mtx] = "alone"
    BY ONLY <2>1, <2>3, <2>4, Zenon DEF BarrierInv, Busy
  <2>5. CASE pc[_mtx] # "alone"
    <3>1. Cardinality(Pending') = Cardinality(Pending)
      BY <2>5, <1>d, Zenon
    <3> QED
      BY ONLY <2>0, <2>2, <2>3, <2>5, <3>1 DEF BarrierInv
  <2> QED
    BY ONLY <2>4, <2>5
<1>6. ActiveInv'
  <2>0. ActiveInv
    BY DEF IInv
  <2>1. \A j \in Jobs :
          /\ job'[j].by = job[j].by /\ job'[j].main = job[j].main
          /\ job'[j].at = "wake" <=> job[j].at = "wake"
          /\ job'[j].at \in {"work", "next", "leave"} => job[j].at \in {"work", "next", "leave"}
    BY <1>a, <1>b
  <2>2. active' = active /\ pc' = pc /\ tp' = tp
    BY <1>a
  <2> QED
    BY ONLY <2>0, <2>1, <2>2 DEF ActiveInv
<1>7. LoadInv'
  <2>1. \A j \in Jobs, w \in Nat : Holds(j, w)' =>
          /\ w < size' /\ w < counter' /\ ran'[w] = 0
          /\ \A k \in Jobs : Holds(k, w)' => k = j
    <3> SUFFICES ASSUME NEW j \in Jobs, NEW w \in Nat, Holds(j, w)'
                 PROVE  /\ w < size' /\ w < counter' /\ ran'[w] = 0
                        /\ \A k \in Jobs : Holds(k, w)' => k = j
      OBVIOUS
    <3>1. \A k \in Jobs : Holds(k, w) => w < size /\ w < counter /\ ran[w] = 0
      BY Zenon DEF IInv, LoadInv
    <3>2. CASE j # i
      <4>1. Holds(j, w)
        BY <3>2, <1>e, Zenon
      <4>2. /\ w < size /\ w < counter /\ ran[w] = 0
            /\ \A k \in Jobs : Holds(k, w) => k = j
        BY <4>1, Zenon DEF IInv, LoadInv
      <4> QED
        BY <4>2, <1>a, <1>e, <1>f
    <3>3. CASE j = i
      <4>1. w = counter /\ counter < size
        BY <3>3, <1>e, <1>f, Zenon
      <4>2. w \in Jobs
        BY <4>1, PoolsAssumption DEF IInv, TypeOK, Jobs
      <4>3. ran[w] = 0
        BY <4>1, <4>2, <1>f DEF IInv, LoadInv
      <4> QED
        BY <3>1, <3>3, <4>1, <4>3, <1>a, <1>e, <1>f
    <3> QED
      BY <3>2, <3>3, Zenon
  <2>2. \A w \in Jobs : ran'[w] \in {0, 1} /\ (ran'[w] = 1 => w < counter')
    BY <1>a, <1>f DEF IInv, LoadInv, Jobs
  <2>3. \A j \in Jobs : job'[j].at \in {"leave", "wake", "done"} => size' <= counter'
    BY <1>a, <1>b, <1>f DEF IInv, LoadInv
  <2> QED
    BY ONLY <2>1, <2>2, <2>3 DEF LoadInv
<1>8. CoverInv'
  <2> SUFFICES ASSUME AllActive
               PROVE  /\ \A c \in Callers : pc'[c] = "run" => active'[c] # None
                      /\ \A w \in Jobs : w < size' /\ w < counter' /\ ran'[w] = 0 =>
                              \E j \in Jobs : Holds(j, w)'
    BY DEF CoverInv, AllActive
  <2>1. \A c \in Callers : pc'[c] = "run" => active'[c] # None
    BY <1>a, Zenon DEF IInv, CoverInv
  <2>2. ASSUME NEW w \in Jobs, w < size', w < counter', ran'[w] = 0
        PROVE  \E j \in Jobs : Holds(j, w)'
    <3>1. w \in Nat
      BY DEF Jobs
    <3>2. CASE w < counter
      <4>1. PICK j \in Jobs : Holds(j, w)
        BY <2>2, <3>2, <1>a, Zenon DEF IInv, CoverInv
      <4> QED
        BY <4>1, <3>1, <1>e, <1>f, Zenon
    <3>3. CASE w = counter
      BY <2>2, <3>1, <3>3, <1>a, <1>e
    <3> QED
      BY <2>2, <3>1, <3>2, <3>3, <1>a, <1>f
  <2> QED
    BY ONLY <2>1, <2>2
<1> QED
  BY ONLY <1>1, <1>2, <1>3, <1>4, <1>5, <1>6, <1>7, <1>8 DEF IInv

\* What the end of job i does; wake says whether it has to wake the caller.
JobLeft(i, wake) ==
    /\ job[i].at = "leave"
    /\ active' = IF job[i].main THEN active ELSE [active EXCEPT ![job[i].by] = None]
    /\ UNCHANGED <<_num_threads, _mtx, flag_once, pc, tp, size, counter, ran>>
    /\ job' \in [Jobs -> [at : JobSteps, load : Nat,
                          by : Threads \cup {None}, main : BOOLEAN]]
    /\ job'[i].at = IF wake THEN "wake" ELSE "done"
    /\ job'[i].by = IF wake THEN job[i].by ELSE None
    /\ \A j \in Jobs \ {i} : job'[j] = job[j]
    /\ tp \notin Async => ~ wake /\ UNCHANGED barrierVars
    /\ tp \in Async => /\ state_' = Decremented
                       /\ wake = (Decremented = waiter_mask_)
                       /\ notified_' = notified_

\* The end of the lambda of run_workloads, in these terms.
LEMMA LeaveJobLeft ==
    ASSUME IInv, NEW i \in Jobs, LeaveJob(i)
    PROVE  \E wake \in BOOLEAN : JobLeft(i, wake)
<1>a. /\ job[i].at = "leave"
      /\ active' = IF job[i].main THEN active ELSE [active EXCEPT ![job[i].by] = None]
      /\ UNCHANGED <<_num_threads, _mtx, flag_once, pc, tp, size, counter, ran>>
  BY Zenon DEF LeaveJob, JobUnchanged
<1>w. PICK wake \in BOOLEAN :
        /\ IF tp \in Async THEN NotifySub(wake) ELSE wake = FALSE /\ UNCHANGED barrierVars
        /\ job' = [job EXCEPT ![i].at = IF wake THEN "wake" ELSE "done",
                              ![i].by = IF wake THEN @ ELSE None]
  BY Zenon DEF LeaveJob
<1>b. /\ job' \in [Jobs -> [at : JobSteps, load : Nat,
                           by : Threads \cup {None}, main : BOOLEAN]]
      /\ job'[i].at = IF wake THEN "wake" ELSE "done"
      /\ job'[i].by = IF wake THEN job[i].by ELSE None
      /\ \A j \in Jobs \ {i} : job'[j] = job[j]
  <2> DEFINE r == [job[i] EXCEPT !.at = IF wake THEN "wake" ELSE "done",
                                 !.by = IF wake THEN @ ELSE None]
  <2>1. job[i] \in [at : JobSteps, load : Nat, by : Threads \cup {None}, main : BOOLEAN]
    BY DEF IInv, TypeOK
  <2>2. /\ r \in [at : JobSteps, load : Nat, by : Threads \cup {None}, main : BOOLEAN]
        /\ r.at = IF wake THEN "wake" ELSE "done"
        /\ r.by = IF wake THEN job[i].by ELSE None
    BY ONLY <2>1, Zenon DEF JobSteps
  <2>3. job' = [job EXCEPT ![i] = r]
    BY <1>w, Zenon DEF IInv, TypeOK
  <2> HIDE DEF r
  <2> QED
    BY <2>2, <2>3, Zenon DEF IInv, TypeOK
<1>g. /\ tp \notin Async => ~ wake /\ UNCHANGED barrierVars
      /\ tp \in Async => /\ state_' = Decremented
                         /\ wake = (Decremented = waiter_mask_)
                         /\ notified_' = notified_
  BY <1>w, Zenon DEF NotifySub
<1> QED
  BY <1>a, <1>b, <1>g, Zenon DEF JobLeft

\* The barrier counts one job less, and its waiter flag stays; the last of the
\* jobs has to wake the caller if it sleeps.
LEMMA LeaveJobCounts ==
    ASSUME IInv, NEW i \in Jobs, NEW wake \in BOOLEAN, JobLeft(i, wake)
    PROVE  BarrierInv' /\ BarrierTypeOK'
<1>a. /\ job[i].at = "leave"
      /\ active' = IF job[i].main THEN active ELSE [active EXCEPT ![job[i].by] = None]
      /\ UNCHANGED <<_num_threads, _mtx, flag_once, pc, tp, size, counter, ran>>
  BY Zenon DEF JobLeft
<1>c. /\ _mtx \in Callers
      /\ pc[_mtx] \in {"posted", "wait", "sleep"}
      /\ tp # None
  BY <1>a, JobHasFrame
<1>b. /\ job' \in [Jobs -> [at : JobSteps, load : Nat,
                           by : Threads \cup {None}, main : BOOLEAN]]
      /\ job'[i].at = IF wake THEN "wake" ELSE "done"
      /\ job'[i].by = IF wake THEN job[i].by ELSE None
      /\ \A j \in Jobs \ {i} : job'[j] = job[j]
  BY Zenon DEF JobLeft
<1>g. /\ tp \notin Async => ~ wake /\ UNCHANGED barrierVars
      /\ tp \in Async => /\ state_' = Decremented
                         /\ wake = (Decremented = waiter_mask_)
                         /\ notified_' = notified_
  BY Zenon DEF JobLeft
<1> HIDE DEF JobLeft
<1>d. Pending' = Pending \ {i} /\ i \in Pending
  BY <1>a, <1>b, Zenon DEF Pending
<1>f. /\ Cardinality(Pending) \in Nat \ {0}
      /\ Cardinality(Pending) <= MaxWorkloads
      /\ Cardinality(Pending') = Cardinality(Pending) - 1
      /\ Cardinality(Pending) = 1 => Pending' = {}
  <2>1. IsFiniteSet(Pending) /\ IsFiniteSet(Pending')
    BY PendingFinite, <1>d, FS_RemoveElement
  <2>2. Cardinality(Pending') = Cardinality(Pending) - 1
    BY ONLY <2>1, <1>d, FS_RemoveElement
  <2>3. Cardinality(Pending') \in Nat /\ Cardinality(Pending) \in Nat
    BY ONLY <2>1, FS_CardinalityType
  <2>4. Cardinality(Pending') = 0 <=> Pending' = {}
    BY ONLY <2>1, FS_EmptySet
  <2> QED
    BY ONLY <2>2, <2>3, <2>4, PendingFinite
<1>h. pc[_mtx] \in {"posted", "wait"} /\ tp \in Async =>
        /\ ~ wake /\ state_' = Cardinality(Pending') /\ notified_' = FALSE
  <2> SUFFICES ASSUME pc[_mtx] \in {"posted", "wait"}, tp \in Async
               PROVE  ~ wake /\ state_' = Cardinality(Pending') /\ notified_' = FALSE
    BY Zenon
  <2>1. state_ = Cardinality(Pending) /\ notified_ = FALSE
    BY <1>c, Zenon DEF IInv, BarrierInv
  <2>2. Decremented = Cardinality(Pending) - 1
    BY <2>1, <1>f, PoolsAssumption, MaskAssumption DEF Decremented
  <2>3. Decremented = Cardinality(Pending') /\ Decremented # waiter_mask_
    BY <2>2, <1>f, PoolsAssumption, MaskAssumption
  <2> QED
    BY <2>1, <2>3, <1>g, Zenon
<1>i. pc[_mtx] = "sleep" =>
        /\ state_' = waiter_mask_ + Cardinality(Pending')
        /\ notified_' = FALSE
        /\ \A j \in Jobs : job[j].at # "wake"
        /\ wake => Pending' = {}
  <2> SUFFICES ASSUME pc[_mtx] = "sleep"
               PROVE  /\ state_' = waiter_mask_ + Cardinality(Pending')
                      /\ notified_' = FALSE
                      /\ \A j \in Jobs : job[j].at # "wake"
                      /\ wake => Pending' = {}
    BY Zenon
  <2>1. /\ state_ = waiter_mask_ + Cardinality(Pending) /\ tp \in Async
        /\ notified_ = FALSE
        /\ \A j \in Jobs : job[j].at # "wake"
    BY <1>a, <1>c DEF IInv, TypeOK, BarrierTypeOK, BarrierInv
  <2>2. Decremented = waiter_mask_ + (Cardinality(Pending) - 1)
    <3>1. /\ waiter_mask_ \in Nat \ {0} /\ Cardinality(Pending) \in Nat \ {0}
          /\ Cardinality(Pending) < waiter_mask_
      BY <1>f, PoolsAssumption, MaskAssumption
    <3>2. state_ + (2 * waiter_mask_ - 1)
            = 2 * waiter_mask_ + (waiter_mask_ + (Cardinality(Pending) - 1))
      BY ONLY <2>1, <3>1
    <3> QED
      BY ONLY <3>1, <3>2 DEF Decremented
  <2>3. /\ Decremented = waiter_mask_ + Cardinality(Pending')
        /\ Decremented = waiter_mask_ => Cardinality(Pending) = 1
    BY <2>2, <1>f, PoolsAssumption, MaskAssumption
  <2> QED
    BY <2>1, <2>3, <1>f, <1>g, Zenon
<1>1. BarrierInv'
  <2> SUFFICES ASSUME NEW c \in Callers, c = _mtx
               PROVE  /\ pc[c] \in {"posted", "wait"} =>
                          /\ tp # None
                          /\ \A j \in Jobs : job'[j].at # "wake"
                          /\ tp \in Async => state_' = Cardinality(Pending') /\ notified_' = FALSE
                      /\ pc[c] \in {"wait", "sleep"} => tp \in Async
                      /\ pc[c] = "sleep" =>
                          /\ state_' = waiter_mask_ + Cardinality(Pending')
                          /\ notified_' => \A j \in Jobs : job'[j].at \in {"none", "done"}
                          /\ \A j \in Jobs : job'[j].at = "wake" =>
                                  \A k \in Jobs \ {j} : job'[k].at \in {"none", "done"}
                      /\ pc[c] = "return" => \A j \in Jobs : job'[j].at \in {"none", "done"}
    BY <1>a, <1>c, Zenon DEF IInv, FrameInv, Busy, BarrierInv
  <2>1. ASSUME pc[c] \in {"posted", "wait"}
        PROVE  /\ tp # None
               /\ \A j \in Jobs : job'[j].at # "wake"
               /\ tp \in Async => state_' = Cardinality(Pending') /\ notified_' = FALSE
    BY <2>1, <1>b, <1>g, <1>h, Zenon DEF IInv, BarrierInv
  <2>2. pc[c] \in {"wait", "sleep"} => tp \in Async
    BY Zenon DEF IInv, BarrierInv
  <2>3. ASSUME pc[c] = "sleep"
        PROVE  /\ state_' = waiter_mask_ + Cardinality(Pending')
               /\ notified_' = FALSE
               /\ \A j \in Jobs : job'[j].at = "wake" =>
                      \A k \in Jobs \ {j} : job'[k].at \in {"none", "done"}
    <3>1. ASSUME NEW j \in Jobs, job'[j].at = "wake", NEW k \in Jobs \ {j}
          PROVE  job'[k].at \in {"none", "done"}
      <4>1. j = i /\ wake
        BY <2>3, <3>1, <1>b, <1>i, Zenon
      <4>2. Pending' = {}
        BY <2>3, <4>1, <1>i, Zenon
      <4>3. job'[k].at \in JobSteps /\ job'[k].at # "wake"
        BY <2>3, <3>1, <4>1, <1>b, <1>i, Zenon
      <4> QED
        BY <4>2, <4>3, Zenon DEF Pending, JobSteps
    <3> QED
      BY <2>3, <3>1, <1>i, Zenon
  <2> QED
    BY <2>1, <2>2, <2>3, <1>c, Zenon
<1>2. BarrierTypeOK'
  <2>1. tp \in Async => Decremented \in 0..(2 * waiter_mask_ - 1)
    BY MaskAssumption DEF IInv, TypeOK, BarrierTypeOK, Decremented
  <2> QED
    BY <1>g, <2>1, Zenon DEF IInv, TypeOK, BarrierTypeOK, barrierVars
<1> QED
  BY ONLY <1>1, <1>2, Zenon

\* The threadpool is inactive again in a worker that ends its job, and stays
\* active in the caller.
LEMMA LeaveJobDeactivates ==
    ASSUME IInv, NEW i \in Jobs, NEW wake \in BOOLEAN, JobLeft(i, wake)
    PROVE  ActiveInv'
<1>a. /\ job[i].at = "leave"
      /\ active' = IF job[i].main THEN active ELSE [active EXCEPT ![job[i].by] = None]
      /\ UNCHANGED <<_num_threads, _mtx, flag_once, pc, tp, size, counter, ran>>
  BY Zenon DEF JobLeft
<1>c. /\ _mtx \in Callers
      /\ pc[_mtx] \in {"posted", "wait", "sleep"}
      /\ tp # None
  BY <1>a, JobHasFrame
<1>b. /\ job' \in [Jobs -> [at : JobSteps, load : Nat,
                           by : Threads \cup {None}, main : BOOLEAN]]
      /\ job'[i].at = IF wake THEN "wake" ELSE "done"
      /\ job'[i].by = IF wake THEN job[i].by ELSE None
      /\ \A j \in Jobs \ {i} : job'[j] = job[j]
  BY Zenon DEF JobLeft
<1> HIDE DEF JobLeft
<1>1. ActiveInv'
  <2>1. \A j \in Jobs : j # i => job'[j] = job[j] /\ (job[j].by # None => job[j].by # job[i].by)
    BY <1>b, Zenon DEF IInv, JobInv
  <2>2. CASE job[i].by \in Workers
    <3>1. job[i].main = FALSE
      BY <2>2, <1>a, Zenon DEF IInv, ActiveInv
    <3>2. /\ active'[job[i].by] = None
          /\ \A t \in Threads : t # job[i].by => active'[t] = active[t]
      BY <2>2, <3>1, <1>a, Zenon DEF IInv, TypeOK, Threads
    <3>3. \A t \in Workers : (\A j \in Jobs : job'[j].by # t) => active'[t] = None
      BY <2>1, <2>2, <3>2 DEF IInv, ActiveInv, Threads
    <3>4. \A j \in Jobs : job'[j].by \in Workers =>
            /\ job'[j].at = "wake" => active'[job'[j].by] = None
            /\ job'[j].at # "wake" => active'[job'[j].by] = tp /\ tp # None /\ job'[j].main = FALSE
      <4>1. ASSUME NEW j \in Jobs \ {i}, job'[j].by \in Workers
            PROVE  /\ job'[j] = job[j] /\ job[j].by \in Workers
                   /\ active'[job[j].by] = active[job[j].by]
        BY <2>1, <3>2, <4>1, DistinctAssumption, Zenon DEF Threads
      <4>2. job'[i].by \in Workers => job'[i].at = "wake" /\ job'[i].by = job[i].by
        BY <1>b, DistinctAssumption
      <4>3. \A j \in Jobs : job[j].by \in Workers =>
              /\ job[j].at = "wake" => active[job[j].by] = None
              /\ job[j].at # "wake" => active[job[j].by] = tp /\ tp # None /\ job[j].main = FALSE
        BY Zenon DEF IInv, ActiveInv
      <4>4. ASSUME NEW j \in Jobs, job'[j].by \in Workers
            PROVE  /\ job'[j].at = "wake" => active'[job'[j].by] = None
                   /\ job'[j].at # "wake" =>
                        active'[job'[j].by] = tp /\ tp # None /\ job'[j].main = FALSE
        <5>1. CASE j = i
          BY ONLY <3>2, <4>2, <4>4, <5>1, Zenon
        <5>2. CASE j # i
          BY ONLY <4>1, <4>3, <4>4, <5>2, Zenon
        <5> QED
          BY ONLY <5>1, <5>2, Zenon
      <4> QED
        BY ONLY <4>4, Zenon
    <3>5. \A d \in Callers : pc[d] \in {"posted", "wait", "sleep", "return"} =>
            /\ active'[d] = tp
            /\ \A j \in Jobs : job'[j].at \in {"work", "next", "leave"} /\ job'[j].by = d =>
                    job'[j].main = TRUE
      <4>1. \A d \in Callers : active'[d] = active[d]
        BY <2>2, <3>2, DistinctAssumption, Zenon DEF Threads
      <4>2. job'[i].at \notin {"work", "next", "leave"}
        BY <1>b, Zenon
      <4>3. \A d \in Callers : pc[d] \in {"posted", "wait", "sleep", "return"} =>
              /\ active[d] = tp
              /\ \A j \in Jobs : job[j].at \in {"work", "next", "leave"} /\ job[j].by = d =>
                      job[j].main = TRUE
        BY Zenon DEF IInv, ActiveInv
      <4>4. \A j \in Jobs : job'[j].at \in {"work", "next", "leave"} => job'[j] = job[j]
        BY ONLY <2>1, <4>2, Zenon
      <4> QED
        BY ONLY <4>1, <4>3, <4>4
    <3> QED
      BY ONLY <1>a, <3>3, <3>4, <3>5, Zenon DEF ActiveInv
  <2>3. CASE job[i].by = _mtx
    <3>1. _mtx \notin Workers
      BY <1>c, DistinctAssumption, Zenon
    <3>2. active' = active
      BY <2>3, <1>a, <1>c, Zenon DEF IInv, ActiveInv
    <3>3. /\ job'[i].by \notin Workers /\ job[i].by \notin Workers
          /\ job'[i].at \notin {"work", "next", "leave"}
      BY <1>b, <2>3, <3>1, DistinctAssumption, Zenon
    <3>4. ActiveInv /\ UNCHANGED <<pc, tp>>
      BY <1>a, Zenon DEF IInv
    <3>5. \A j \in Jobs : job'[j].by \in Workers => job'[j] = job[j]
      BY ONLY <2>1, <3>3, Zenon
    <3>6. \A j \in Jobs : job'[j].at \in {"work", "next", "leave"} => job'[j] = job[j]
      BY ONLY <2>1, <3>3, Zenon
    <3>7. \A t \in Workers : (\A j \in Jobs : job'[j].by # t) => active[t] = None
      <4>1. \A j \in Jobs : job[j].by \in Workers => job'[j].by = job[j].by
        BY ONLY <2>1, <3>3, Zenon
      <4>2. \A t \in Workers : (\A j \in Jobs : job[j].by # t) => active[t] = None
        BY ONLY <3>4, Zenon DEF ActiveInv
      <4> QED
        BY ONLY <4>1, <4>2, Zenon
    <3> QED
      BY ONLY <3>2, <3>4, <3>5, <3>6, <3>7, ActiveKept
  <2> QED
    BY <1>a, <2>2, <2>3, Zenon DEF IInv, JobInv
<1> QED
  BY ONLY <1>1

\* A job ends: the worker is left as it was found, and the last one has to wake
\* the caller.
LEMMA LeaveJobPreserves ==
    ASSUME IInv, NEW i \in Jobs, LeaveJob(i)
    PROVE  IInv'
<1>l. PICK wake \in BOOLEAN : JobLeft(i, wake)
  BY LeaveJobLeft
<1>a. /\ job[i].at = "leave"
      /\ active' = IF job[i].main THEN active ELSE [active EXCEPT ![job[i].by] = None]
      /\ UNCHANGED <<_num_threads, _mtx, flag_once, pc, tp, size, counter, ran>>
  BY <1>l, Zenon DEF JobLeft
<1>c. /\ _mtx \in Callers
      /\ pc[_mtx] \in {"posted", "wait", "sleep"}
      /\ tp # None
  BY <1>a, JobHasFrame
<1>b. /\ job' \in [Jobs -> [at : JobSteps, load : Nat,
                           by : Threads \cup {None}, main : BOOLEAN]]
      /\ job'[i].at = IF wake THEN "wake" ELSE "done"
      /\ job'[i].by = IF wake THEN job[i].by ELSE None
      /\ \A j \in Jobs \ {i} : job'[j] = job[j]
  BY <1>l, Zenon DEF JobLeft
<1>e. \A j \in Jobs, w \in Nat : Holds(j, w)' = Holds(j, w)
  BY <1>a, <1>b DEF Holds
<1> HIDE DEF LeaveJob
<1>5. BarrierInv' /\ BarrierTypeOK'
  BY <1>l, LeaveJobCounts
<1>6. ActiveInv'
  BY <1>l, LeaveJobDeactivates
<1>1. TypeOK'
  <2>1. active' \in [Threads -> Pools \cup {None}]
    BY <1>a, Zenon DEF IInv, TypeOK
  <2> QED
    BY <1>a, <1>b, <1>5, <2>1 DEF IInv, TypeOK
<1>2. FrameInv'
  BY <1>a, <1>b, <1>c, Zenon DEF IInv, FrameInv
<1>3. JobInv'
  <2>0. JobInv
    BY Zenon DEF IInv
  <2>1. job[i].by \in Workers \cup {_mtx} /\ job[i].by # None
    BY <2>0, <1>a DEF JobInv
  <2>2. \A j \in Jobs \ {i} : job'[j] = job[j]
    BY <1>b, Zenon
  <2>3. None \notin Workers /\ _mtx' = _mtx
    BY <1>a, DistinctAssumption, Zenon
  <2>4. /\ job'[i].at \in {"wake", "done"}
        /\ job'[i].at = "wake" => job'[i].by = job[i].by
        /\ job'[i].at = "done" => job'[i].by = None
    BY <1>b, Zenon
  <2> QED
    BY ONLY <2>0, <2>1, <2>2, <2>3, <2>4 DEF JobInv
<1>4. AloneInv'
  <2>1. \A c \in Callers : pc[c] # "alone"
    BY <1>c DEF IInv, FrameInv, Busy
  <2> QED
    BY <1>a, <2>1 DEF AloneInv
<1>7. LoadInv'
  <2>1. LoadInv /\ UNCHANGED <<size, counter, ran>>
    BY <1>a, Zenon DEF IInv
  <2>2. size <= counter
    BY ONLY <1>a, <2>1, i \in Jobs, Zenon DEF LoadInv
  <2> QED
    BY ONLY <1>e, <2>1, <2>2, Zenon DEF LoadInv
<1>8. CoverInv'
  <2>1. \A c \in Callers : pc[c] = "run" => active'[c] = active[c]
    <3>1. \A c \in Callers : pc[c] = "run" => c # job[i].by
      BY <1>c, DistinctAssumption DEF IInv, JobInv, FrameInv, Busy
    <3> QED
      BY <1>a, <3>1, Zenon DEF IInv, TypeOK, Threads
  <2>2. CoverInv /\ UNCHANGED <<pc, size, counter, ran>> /\ Jobs \subseteq Nat
    BY <1>a DEF IInv, Jobs
  <2> QED
    BY ONLY <1>e, <2>1, <2>2, Zenon DEF CoverInv, AllActive
<1> QED
  BY ONLY <1>1, <1>2, <1>3, <1>4, <1>5, <1>6, <1>7, <1>8, Zenon DEF IInv

\* The last job to notify wakes the caller, when no job is left that could touch the frame.
LEMMA WakeCallerPreserves ==
    ASSUME IInv, NEW i \in Jobs, WakeCaller(i)
    PROVE  IInv'
<1>a. /\ job[i].at = "wake" /\ notified_' = TRUE
      /\ UNCHANGED <<_num_threads, _mtx, flag_once, pc, tp, size>>
      /\ UNCHANGED <<counter, ran, active, state_>>
  BY Zenon DEF WakeCaller, NotifyWake, JobUnchanged
<1>c. /\ _mtx \in Callers
      /\ pc[_mtx] \in {"alone", "posted", "wait", "sleep"}
      /\ pc[_mtx] = "alone" =>
            i = 0 /\ job[i].by = _mtx /\ job[i].at \in {"work", "next"}
      /\ pc[_mtx] # "alone" => tp # None
  BY <1>a, JobHasFrame, Zenon
<1>b. /\ job' \in [Jobs -> [at : JobSteps, load : Nat,
                           by : Threads \cup {None}, main : BOOLEAN]]
      /\ job'[i].at = "done" /\ job'[i].by = None
      /\ \A j \in Jobs \ {i} : job'[j] = job[j]
  <2> DEFINE r == [job[i] EXCEPT !.at = "done", !.by = None]
  <2>1. job[i] \in [at : JobSteps, load : Nat, by : Threads \cup {None}, main : BOOLEAN]
    BY DEF IInv, TypeOK
  <2>2. /\ r \in [at : JobSteps, load : Nat, by : Threads \cup {None}, main : BOOLEAN]
        /\ r.at = "done" /\ r.by = None
    BY ONLY <2>1, Zenon DEF JobSteps
  <2>3. job' = [job EXCEPT ![i] = r]
    BY Zenon DEF IInv, TypeOK, WakeCaller
  <2> HIDE DEF r
  <2> QED
    BY <2>2, <2>3 DEF IInv, TypeOK
<1>d. Pending' = Pending
  BY <1>a, <1>b, Zenon DEF Pending
<1>e. \A j \in Jobs, w \in Nat : Holds(j, w)' = Holds(j, w)
  BY <1>a, <1>b, Zenon DEF Holds
<1>f. pc[_mtx] = "sleep" /\ (\A j \in Jobs \ {i} : job[j].at \in {"none", "done"})
  BY <1>a, <1>c, Zenon DEF IInv, BarrierInv
<1> HIDE DEF WakeCaller
<1>1. TypeOK'
  BY <1>a, <1>b, Zenon DEF IInv, TypeOK, BarrierTypeOK
<1>2. FrameInv'
  BY <1>a, <1>b, <1>c, Zenon DEF IInv, FrameInv
<1>3. JobInv'
  <2>1. JobInv /\ _mtx' = _mtx /\ None \notin Workers
    BY <1>a, DistinctAssumption, Zenon DEF IInv
  <2> QED
    BY ONLY <1>b, <2>1 DEF JobInv
<1>4. AloneInv'
  BY <1>a, <1>b, <1>c, Zenon DEF IInv, AloneInv
<1>5. BarrierInv'
  BY <1>a, <1>b, <1>c, <1>d, <1>f, Zenon DEF IInv, FrameInv, Busy, BarrierInv
<1>6. ActiveInv'
  <2>1. ActiveInv /\ UNCHANGED <<active, pc, tp>> /\ None \notin Workers
    BY <1>a, DistinctAssumption, Zenon DEF IInv
  <2>2. job[i].by \in Workers => active[job[i].by] = None
    BY <1>a, <2>1, Zenon DEF ActiveInv
  <2>3. \A t \in Workers : (\A j \in Jobs : job'[j].by # t) => active[t] = None
    BY ONLY <1>b, <2>1, <2>2 DEF ActiveInv
  <2>4. \A j \in Jobs : job'[j].by \in Workers => job'[j] = job[j]
    BY ONLY <1>b, <2>1, Zenon
  <2>5. \A j \in Jobs : job'[j].at \in {"work", "next", "leave"} => job'[j] = job[j]
    BY ONLY <1>b, Zenon
  <2> QED
    BY ONLY <2>1, <2>3, <2>4, <2>5, ActiveKept
<1>7. LoadInv'
  <2>1. LoadInv /\ UNCHANGED <<size, counter, ran>>
    BY <1>a, Zenon DEF IInv
  <2>2. size <= counter
    BY ONLY <1>a, <2>1, i \in Jobs, Zenon DEF LoadInv
  <2> QED
    BY ONLY <1>e, <2>1, <2>2, Zenon DEF LoadInv
<1>8. CoverInv'
  <2>1. CoverInv /\ UNCHANGED <<pc, active, size, counter, ran>>
    BY <1>a, Zenon DEF IInv
  <2>2. Jobs \subseteq Nat
    BY DEF Jobs
  <2> QED
    BY ONLY <1>e, <2>1, <2>2, Zenon DEF CoverInv, AllActive
<1> QED
  BY ONLY <1>1, <1>2, <1>3, <1>4, <1>5, <1>6, <1>7, <1>8 DEF IInv

\* run_workloads without workloads returns at once.
LEMMA RunNothingPreserves ==
    ASSUME IInv, NEW c \in Callers, NEW n \in 0..MaxWorkloads, RunWorkloads(c, n),
           MinOf(_num_threads, n) < 1
    PROVE  IInv'
<1> DEFINE N == MinOf(_num_threads, n)
<1>a. /\ pc[c] = "run" /\ _mtx = None /\ pc' = [pc EXCEPT ![c] = "idle"]
      /\ active' = [active EXCEPT ![c] = None]
      /\ UNCHANGED <<_num_threads, _mtx, flag_once, tp, size, counter, job, ran, state_, notified_>>
  BY Zenon DEF RunWorkloads, Goto, frameVars, barrierVars
<1>b. Pending' = Pending /\ (\A i \in Jobs, w \in Nat : Holds(i, w)' = Holds(i, w))
  BY <1>a, Zenon DEF Pending, Holds
<1>n. /\ N \in Nat /\ n \in Nat /\ N <= n /\ n <= MaxWorkloads
  BY PoolsAssumption DEF IInv, TypeOK, MinOf
<1>c. /\ c \in Threads /\ c \notin Workers /\ c # None
      /\ \A d \in Callers : pc[d] \notin Busy
      /\ \A i \in Jobs : job[i].at = "none"
  BY <1>a, DistinctAssumption, Zenon DEF IInv, FrameInv, Threads
<1>d. \A t \in Workers : active[t] = None /\ active'[t] = None
  <2>1. \A t \in Workers, i \in Jobs : job[i].by # t
    BY <1>c, DistinctAssumption, Zenon DEF IInv, JobInv
  <2>2. \A t \in Workers : active[t] = None
    BY <2>1, Zenon DEF IInv, ActiveInv
  <2> QED
    BY <1>a, <1>c, <2>2, Zenon DEF IInv, TypeOK, Threads
<1> HIDE DEF RunWorkloads, N
<1>1. TypeOK'
  BY <1>a, <1>c, Zenon DEF IInv, TypeOK, BarrierTypeOK
<1>2. FrameInv'
  BY <1>a, <1>c, Zenon DEF IInv, TypeOK, FrameInv, Busy
<1>3. JobInv'
  BY <1>a, Zenon DEF IInv, JobInv
<1>4. AloneInv'
  BY <1>a, <1>c, Zenon DEF IInv, TypeOK, AloneInv, Busy
<1>5. BarrierInv'
  BY <1>a, <1>c, Zenon DEF IInv, TypeOK, Busy, BarrierInv
<1>6. ActiveInv'
  BY <1>a, <1>c, <1>d DEF IInv, TypeOK, Busy, ActiveInv, Threads
<1>7. LoadInv'
  BY <1>a, <1>b, Zenon DEF IInv, LoadInv
<1>8. CoverInv'
  <2>1. \A d \in Callers : pc'[d] = "run" => pc[d] = "run" /\ active'[d] = active[d]
    BY <1>a DEF IInv, TypeOK, Threads
  <2>2. CoverInv /\ UNCHANGED <<size, counter, ran>> /\ Jobs \subseteq Nat
    BY <1>a DEF IInv, Jobs
  <2> QED
    BY ONLY <1>b, <2>1, <2>2, Zenon DEF CoverInv, AllActive
<1> QED
  BY ONLY <1>1, <1>2, <1>3, <1>4, <1>5, <1>6, <1>7, <1>8 DEF IInv

\* run_workloads with one thread to use: the caller makes its threadpool inactive
\* and processes the workloads itself.
LEMMA RunAlonePreserves ==
    ASSUME IInv, NEW c \in Callers, NEW n \in 0..MaxWorkloads, RunWorkloads(c, n),
           MinOf(_num_threads, n) >= 1, active[c] = None \/ MinOf(_num_threads, n) = 1
    PROVE  IInv'
<1> DEFINE N == MinOf(_num_threads, n)
<1>m. ~ (N < 1) /\ ~ (N > 1 /\ active[c] # None)
  BY DEF IInv, TypeOK, MinOf
<1>a. /\ pc[c] = "run" /\ _mtx = None /\ pc' = [pc EXCEPT ![c] = "alone"]
      /\ _mtx' = c /\ size' = n /\ counter' = N /\ tp' = active[c]
      /\ ran' = [w \in Jobs |-> 0]
      /\ active' = [active EXCEPT ![c] = None]
      /\ job' = [i \in Jobs |-> IF i = 0 THEN [NoJob EXCEPT !.at = "work", !.by = c] ELSE NoJob]
      /\ UNCHANGED <<_num_threads, flag_once, state_, notified_>>
  BY <1>m, Zenon DEF RunWorkloads, Goto, barrierVars
<1>n. /\ N \in Nat /\ n \in Nat /\ N <= n /\ n <= MaxWorkloads
  BY PoolsAssumption DEF IInv, TypeOK, MinOf
<1>c. /\ c \in Threads /\ c \notin Workers /\ c # None
      /\ \A d \in Callers : pc[d] \notin Busy
      /\ \A i \in Jobs : job[i].at = "none"
  BY <1>a, DistinctAssumption DEF IInv, FrameInv, Threads
<1>d. \A t \in Workers : active[t] = None /\ active'[t] = None
  <2>1. \A t \in Workers, i \in Jobs : job[i].by # t
    BY <1>c, DistinctAssumption, Zenon DEF IInv, JobInv
  <2>2. \A t \in Workers : active[t] = None
    BY <2>1 DEF IInv, ActiveInv
  <2> QED
    BY <1>a, <1>c, <2>2, Zenon DEF IInv, TypeOK, Threads
<1>b. /\ job' \in [Jobs -> [at : JobSteps, load : Nat,
                           by : Threads \cup {None}, main : BOOLEAN]]
      /\ 0 \in Jobs
      /\ job'[0].at = "work" /\ job'[0].load = 0 /\ job'[0].by = c
      /\ \A i \in Jobs \ {0} : job'[i].at = "none" /\ job'[i].by = None
  <2>1. 0 \in Jobs
    BY <1>m, <1>n, PoolsAssumption DEF Jobs
  <2> QED
    BY <1>a, <1>c, <2>1, Zenon DEF NoJob, JobSteps
<1>e. \A i \in Jobs, w \in Nat : Holds(i, w)' <=> i = 0 /\ w = 0
  BY <1>b DEF Holds
<1>f. \A d \in Callers : pc'[d] = (IF d = c THEN "alone" ELSE pc[d])
  BY <1>a DEF IInv, TypeOK
<1>g. N >= 1 /\ (active[c] = None \/ N = 1)
  OBVIOUS
<1> HIDE DEF RunWorkloads, N
<1>1. TypeOK'
  <2>1. size' \in 0..MaxWorkloads /\ counter' \in Nat
    BY <1>a, <1>n
  <2>2. active' \in [Threads -> Pools \cup {None}] /\ tp' \in Pools \cup {None}
    BY <1>a, <1>c DEF IInv, TypeOK
  <2>3. BarrierTypeOK'
    BY <1>a DEF IInv, TypeOK, BarrierTypeOK
  <2>4. ran' \in [Jobs -> Nat]
    BY <1>a
  <2>5. /\ pc' \in [Callers -> {"idle", "run", "alone", "posted", "wait", "sleep", "return", "exited"}]
        /\ _mtx' \in Callers \cup {None}
    BY <1>a DEF IInv, TypeOK
  <2> QED
    BY <1>a, <1>b, <2>1, <2>2, <2>3, <2>4, <2>5, Zenon DEF IInv, TypeOK
<1>2. FrameInv'
  BY <1>a, <1>b, <1>c, <1>f DEF FrameInv, Busy
<1>3. JobInv'
  BY <1>a, <1>b, <1>c DEF JobInv
<1>4. AloneInv'
  BY <1>b, <1>c, <1>f, Zenon DEF AloneInv, Busy
<1>5. BarrierInv'
  BY <1>c, <1>f, Zenon DEF BarrierInv, Busy
<1>6. ActiveInv'
  BY <1>b, <1>c, <1>d, <1>f, DistinctAssumption, Zenon DEF ActiveInv, Busy
<1>7. LoadInv'
  BY <1>a, <1>b, <1>e, <1>g, <1>n DEF LoadInv
<1>8. CoverInv'
  <2> SUFFICES ASSUME AllActive
               PROVE  /\ \A d \in Callers : pc'[d] = "run" => active'[d] # None
                      /\ \A w \in Jobs : w < size' /\ w < counter' /\ ran'[w] = 0 =>
                              \E j \in Jobs : Holds(j, w)'
    BY DEF CoverInv, AllActive
  <2>1. N = 1
    BY <1>a, <1>g DEF IInv, CoverInv
  <2>2. \A d \in Callers : pc'[d] = "run" => active'[d] # None
    BY <1>a, <1>f DEF IInv, TypeOK, CoverInv, Threads
  <2>3. \A w \in Jobs : w < counter' => w = 0
    BY <1>a, <2>1 DEF Jobs
  <2> QED
    BY <1>b, <1>e, <2>2, <2>3, Zenon
<1> QED
  BY ONLY <1>1, <1>2, <1>3, <1>4, <1>5, <1>6, <1>7, <1>8 DEF IInv

\* run_workloads posts a job for every thread, and its barrier counts them.
LEMMA RunPostedPreserves ==
    ASSUME IInv, NEW c \in Callers, NEW n \in 0..MaxWorkloads, RunWorkloads(c, n),
           active[c] # None, MinOf(_num_threads, n) > 1
    PROVE  IInv'
<1> DEFINE N == MinOf(_num_threads, n)
<1>m. ~ (N < 1) /\ ~ (N = 1)
  BY DEF IInv, TypeOK, MinOf
<1>a. /\ pc[c] = "run" /\ _mtx = None /\ pc' = [pc EXCEPT ![c] = "posted"]
      /\ _mtx' = c /\ size' = n /\ counter' = N /\ tp' = active[c]
      /\ ran' = [w \in Jobs |-> 0]
      /\ active' = active
      /\ job' = [i \in Jobs |-> IF i < N THEN [NoJob EXCEPT !.at = "queued"] ELSE NoJob]
      /\ state_' = (IF active[c] \in Async THEN N ELSE 0) /\ notified_' = FALSE
      /\ UNCHANGED <<_num_threads, flag_once>>
  BY <1>m, Zenon DEF RunWorkloads, BarrierSet, Goto
<1>n. /\ N \in Nat /\ n \in Nat /\ N <= n /\ n <= MaxWorkloads
  BY PoolsAssumption DEF IInv, TypeOK, MinOf
<1>c. /\ c \in Threads /\ c \notin Workers /\ c # None
      /\ \A d \in Callers : pc[d] \notin Busy
      /\ \A i \in Jobs : job[i].at = "none"
  BY <1>a, DistinctAssumption DEF IInv, FrameInv, Threads
<1>d. \A t \in Workers : active[t] = None /\ active'[t] = None
  <2>1. \A t \in Workers, i \in Jobs : job[i].by # t
    BY <1>c, DistinctAssumption, Zenon DEF IInv, JobInv
  <2>2. \A t \in Workers : active[t] = None
    BY <2>1 DEF IInv, ActiveInv
  <2> QED
    BY <1>a, <1>c, <2>2, Zenon DEF IInv, TypeOK, Threads
<1>g. N > 1 /\ active[c] # None
  OBVIOUS
<1>b. /\ job' \in [Jobs -> [at : JobSteps, load : Nat,
                           by : Threads \cup {None}, main : BOOLEAN]]
      /\ 0 \in Jobs
      /\ \A i \in Jobs : /\ job'[i].at = (IF i < N THEN "queued" ELSE "none")
                         /\ job'[i].by = None
  <2>1. 0 \in Jobs
    BY <1>g, <1>n, PoolsAssumption DEF Jobs
  <2> QED
    BY <1>a, <2>1, Zenon DEF NoJob, JobSteps
<1>e. \A i \in Jobs, w \in Nat : Holds(i, w)' <=> i = w /\ i < N
  BY <1>b DEF Holds
<1>f. \A d \in Callers : pc'[d] = (IF d = c THEN "posted" ELSE pc[d])
  BY <1>a DEF IInv, TypeOK
<1>h. Cardinality(Pending') = N
  <2>1. Pending' = 0..(N - 1)
    BY <1>b, <1>n, PoolsAssumption DEF Pending, Jobs
  <2>2. 0 \in Int /\ N - 1 \in Int
    BY <1>n
  <2>3. Cardinality(0..(N - 1)) = N
    BY <1>g, <1>n, <2>2, FS_Interval
  <2> QED
    BY ONLY <2>1, <2>3, Zenon
<1> HIDE DEF RunWorkloads, N
<1>1. TypeOK'
  <2>1. size' \in 0..MaxWorkloads /\ counter' \in Nat
    BY <1>a, <1>n
  <2>2. active' \in [Threads -> Pools \cup {None}] /\ tp' \in Pools \cup {None}
    BY <1>a, <1>c DEF IInv, TypeOK
  <2>3. BarrierTypeOK'
    <3>1. N \in 0..(2 * waiter_mask_ - 1) /\ 0 \in 0..(2 * waiter_mask_ - 1)
      BY <1>n, PoolsAssumption, MaskAssumption
    <3> QED
      BY ONLY <1>a, <3>1, Zenon DEF BarrierTypeOK
  <2>4. ran' \in [Jobs -> Nat]
    BY <1>a
  <2>5. /\ pc' \in [Callers -> {"idle", "run", "alone", "posted", "wait", "sleep", "return", "exited"}]
        /\ _mtx' \in Callers \cup {None}
    BY <1>a DEF IInv, TypeOK
  <2> QED
    BY <1>a, <1>b, <2>1, <2>2, <2>3, <2>4, <2>5 DEF IInv, TypeOK
<1>2. FrameInv'
  BY <1>a, <1>b, <1>c, <1>f, <1>g, <1>n DEF FrameInv, Busy
<1>3. JobInv'
  BY <1>b, DistinctAssumption, Zenon DEF JobInv
<1>4. AloneInv'
  BY <1>c, <1>f DEF AloneInv, Busy
<1>5. BarrierInv'
  BY <1>a, <1>b, <1>c, <1>f, <1>g, <1>h DEF BarrierInv, Busy
<1>6. ActiveInv'
  BY <1>a, <1>b, <1>c, <1>d, <1>f, DistinctAssumption DEF ActiveInv, Busy
<1>7. LoadInv'
  BY <1>a, <1>b, <1>e, <1>g, <1>n DEF LoadInv, Jobs
<1>8. CoverInv'
  <2>1. \A w \in Jobs : w < counter' => Holds(w, w)'
    BY <1>a, <1>e DEF Jobs
  <2>2. \A d \in Callers : pc'[d] = "run" => pc[d] = "run" /\ active'[d] = active[d]
    BY <1>a, <1>f
  <2> QED
    BY <2>1, <2>2 DEF IInv, CoverInv, AllActive
<1> QED
  BY ONLY <1>1, <1>2, <1>3, <1>4, <1>5, <1>6, <1>7, <1>8 DEF IInv

\* run_workloads, with and without a use for the pool.
LEMMA RunWorkloadsPreserves ==
    ASSUME IInv, NEW c \in Callers, NEW n \in 0..MaxWorkloads, RunWorkloads(c, n)
    PROVE  IInv'
<1> DEFINE N == MinOf(_num_threads, n)
<1>1. N \in Nat
  BY PoolsAssumption DEF IInv, TypeOK, MinOf
<1>2. CASE N < 1
  BY <1>2, RunNothingPreserves
<1>3. CASE N >= 1 /\ (active[c] = None \/ N = 1)
  BY <1>3, RunAlonePreserves, Zenon
<1>4. CASE N > 1 /\ active[c] # None
  BY <1>4, RunPostedPreserves, Zenon
<1> HIDE DEF N
<1> QED
  BY <1>1, <1>2, <1>3, <1>4

\* Nothing happens in the scheduler.
LEMMA StutterPreserves ==
    ASSUME IInv, UNCHANGED vars
    PROVE  IInv'
<1>a. UNCHANGED <<_num_threads, _mtx, flag_once, active, pc, tp, size, counter, job, ran,
                  state_, notified_>>
  BY Zenon DEF vars, frameVars, barrierVars
<1>1. TypeOK'
  BY <1>a, SMTT(30) DEF IInv, TypeOK, BarrierTypeOK
<1>2. FrameInv' /\ JobInv' /\ AloneInv'
  BY <1>a DEF IInv, FrameInv, JobInv, AloneInv
<1>6. ActiveInv'
  BY <1>a DEF IInv, ActiveInv
<1>3. BarrierInv'
  BY <1>a, SMTT(30) DEF IInv, BarrierInv, Pending
<1>b. (\A i \in Jobs, w \in Nat : Holds(i, w)' = Holds(i, w)) /\ Jobs \subseteq Nat
  BY <1>a DEF Holds, Jobs
<1>4. LoadInv'
  BY <1>a, <1>b, Zenon DEF IInv, LoadInv
<1>5. CoverInv'
  BY <1>a, <1>b DEF IInv, CoverInv, AllActive
<1> QED
  BY ONLY <1>1, <1>2, <1>3, <1>4, <1>5, <1>6 DEF IInv

\* The scheduler before its first use.
LEMMA InitEstablishes == Init => IInv
<1> SUFFICES ASSUME Init PROVE IInv
  OBVIOUS
<1>1. TypeOK
  <2>1. 0 \in 0..(2 * waiter_mask_ - 1) /\ 0 \in 0..MaxWorkloads
    BY PoolsAssumption, MaskAssumption
  <2>2. NoJob \in [at : JobSteps, load : Nat, by : Threads \cup {None}, main : BOOLEAN]
    BY Zenon DEF NoJob, JobSteps
  <2> QED
    BY <2>1, <2>2, PoolsAssumption, Zenon DEF Init, TypeOK, BarrierTypeOK
<1>2. \A i \in Jobs : job[i].at = "none" /\ job[i].by = None
  BY DEF Init, NoJob
<1>3. _mtx = None /\ size = 0 /\ \A c \in Callers : pc[c] = "idle"
  BY Zenon DEF Init
<1>4. FrameInv
  BY <1>2, <1>3, DistinctAssumption, Zenon DEF FrameInv, Busy
<1>5. JobInv /\ AloneInv /\ BarrierInv
  BY <1>2, <1>3, DistinctAssumption, Zenon DEF JobInv, AloneInv, BarrierInv
<1>6. ActiveInv
  BY <1>2, <1>3, DistinctAssumption, Zenon DEF Init, ActiveInv, Threads
<1>7. LoadInv
  BY <1>2 DEF Init, LoadInv, Holds
<1>8. CoverInv
  BY <1>3 DEF CoverInv, Jobs
<1> QED
  BY ONLY <1>1, <1>4, <1>5, <1>6, <1>7, <1>8 DEF IInv

-----------------------------------------------------------------------------
(* The theorems.                                                            *)

\* The invariant of run_workloads and the jobs it posts holds at every moment.
THEOREM SchedulerInvariant == Spec => []IInv
<1>1. ASSUME IInv, [Next]_vars
      PROVE  IInv'
  <2>1. ASSUME NEW c \in Callers, NEW p \in Pools \cup {None}, Schedule(c, p)
        PROVE  IInv'
    BY <1>1, <2>1, SchedulePreserves, Zenon
  <2>2. ASSUME NEW c \in Callers, CallerStep(c)
        PROVE  IInv'
    BY <1>1, <2>2, RunWorkloadsPreserves, AloneDonePreserves, ParallelForReturnsPreserves,
       WaitPreserves, WakeUpPreserves, ReturnPreserves DEF CallerStep
  <2>3. ASSUME NEW c \in Callers, Exit(c)
        PROVE  IInv'
    BY <1>1, <2>3, ExitPreserves, Zenon
  <2>4. ASSUME NEW i \in Jobs, JobStep(i)
        PROVE  IInv'
    BY <1>1, <2>4, TakeJobPreserves, CallWorkloadPreserves, GetNextPreserves,
       LeaveJobPreserves, WakeCallerPreserves DEF JobStep
  <2>5. CASE UNCHANGED vars
    BY <1>1, <2>5, StutterPreserves
  <2> QED
    BY <1>1, <2>1, <2>2, <2>3, <2>4, <2>5, Zenon DEF Next
<1> QED
  BY <1>1, InitEstablishes, PTL DEF Spec

\* The barrier's word never leaves its width and every variable has its type,
\* however many callers, workers and workloads there are.
THEOREM SchedulerTypeCorrect == Spec => []TypeOK
<1>1. IInv => TypeOK
  BY DEF IInv
<1> QED
  BY <1>1, SchedulerInvariant, PTL

\* run_workloads does not return while a job of the pool may still use the
\* feeder or the barrier in its frame: the barrier of an asynchronous pool
\* lets the caller go only after the last notify.
THEOREM FrameOutlivesItsJobs == Spec => []FrameOutlivesJobs
<1>1. IInv => FrameOutlivesJobs
  BY DEF IInv, BarrierInv, FrameOutlivesJobs
<1> QED
  BY <1>1, SchedulerInvariant, PTL

\* The lambda of run_workloads leaves every worker as it found it, and the
\* caller with its threadpool, in any order of its jobs.
THEOREM PoolActiveOnlyInJobs == Spec => []ActiveOnlyInJobs
<1>1. ASSUME IInv PROVE ActiveOnlyInJobs
  <2>1. ASSUME NEW t \in Workers
        PROVE  active[t] # None <=> \E i \in Jobs : job[i].by = t /\ job[i].at # "wake"
    <3>1. ASSUME NEW i \in Jobs, job[i].by = t, job[i].at # "wake"
          PROVE  active[t] # None
      BY <1>1, <3>1, Zenon DEF IInv, ActiveInv
    <3>2. ASSUME active[t] # None
          PROVE  \E i \in Jobs : job[i].by = t /\ job[i].at # "wake"
      BY <1>1, <3>2 DEF IInv, ActiveInv
    <3> QED
      BY <3>1, <3>2, Zenon
  <2>2. \A c \in Callers : pc[c] \in {"posted", "wait", "sleep", "return"} => active[c] = tp
    BY <1>1 DEF IInv, ActiveInv
  <2> QED
    BY <2>1, <2>2, Zenon DEF ActiveOnlyInJobs
<1> QED
  BY <1>1, SchedulerInvariant, PTL

\* Where a threadpool is active whenever a kernel is scheduled, process_workloads
\* and the ThreadFeeder call every workload exactly once before run_workloads
\* returns, and none that does not exist.
THEOREM EveryWorkloadRunsOnce ==
    ASSUME \A c \in Callers : None \notin ActivePools[c]
    PROVE  Spec => []WorkloadsRunOnce
<1>1. ASSUME IInv PROVE WorkloadsRunOnce
  <2>1. ASSUME NEW i \in Jobs, job[i].at = "work"
        PROVE  job[i].load < size
    <3>1. job[i].load \in Nat /\ Holds(i, job[i].load)
      BY <1>1, <2>1, Zenon DEF IInv, TypeOK, Holds
    <3> QED
      BY <1>1, <3>1, Zenon DEF IInv, LoadInv
  <2>2. \A w \in Jobs : ran[w] <= 1
    BY <1>1 DEF IInv, LoadInv
  <2>3. ASSUME NEW c \in Callers, pc[c] = "return", NEW w \in Jobs, w < size
        PROVE  ran[w] = 1
    <3>1. \A i \in Jobs : job[i].at \in {"none", "done"}
      BY <1>1, <2>3, Zenon DEF IInv, BarrierInv
    <3>2. \A i \in Jobs : ~ Holds(i, w)
      BY <3>1, Zenon DEF Holds
    <3>3. 0 \in Jobs /\ job[0].at = "done"
      BY <1>1, <2>3, <3>1, DistinctAssumption, Zenon DEF IInv, FrameInv, Busy
    <3>4. size <= counter
      BY <1>1, <3>3, Zenon DEF IInv, LoadInv
    <3>5. w < counter
      BY <1>1, <2>3, <3>4, PoolsAssumption DEF IInv, TypeOK, Jobs
    <3>6. ran[w] # 0
      BY <1>1, <2>3, <3>2, <3>5 DEF IInv, CoverInv, AllActive
    <3> QED
      BY <1>1, <3>6, Zenon DEF IInv, LoadInv
  <2> QED
    BY <2>1, <2>2, <2>3, Zenon DEF WorkloadsRunOnce
<1> QED
  BY <1>1, SchedulerInvariant, PTL
=============================================================================
