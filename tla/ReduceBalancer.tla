--------------------------- MODULE ReduceBalancer ---------------------------
(***************************************************************************)
(* How oneDNN divides work among threads: balance211 of                    *)
(* common/dnnl_thread.hpp and reduce_balancer_t of                         *)
(* cpu/x64/cpu_reducer.cpp, which forms groups of threads, gives every     *)
(* group some of the jobs and has the threads of a group share the         *)
(* reduction dimension.  b is what a balancer is made from (its arguments  *)
(* nthr, job_size, njobs, reduction_size, max_buffer_size, and allow for   *)
(* allow_nthr_in_group_), g the balance it finds.                          *)
(***************************************************************************)
EXTENDS Integers

Least(a, b) == IF a <= b THEN a ELSE b
Greatest(a, b) == IF a >= b THEN a ELSE b

DivUp(a, b) == (a + b - 1) \div b

\* Mutant of Balance211: the threads with the small part start one too early.
Balance211Overlaps(n, team, tid) ==
    LET n1 == DivUp(n, team)
        n2 == n1 - 1
        T1 == n - n2 * team
        start == IF tid < T1 THEN tid * n1 ELSE T1 * n1 + (tid - T1) * n2 - 1
        mine  == IF tid < T1 THEN n1 ELSE n2
    IN  IF team <= 1 \/ n = 0 THEN <<0, n>> ELSE <<start, start + mine>>

\* The part of 0..(n-1) that thread tid of a team does, as <<n_start, n_end>>.
Balance211(n, team, tid) ==
    LET n1 == DivUp(n, team)
        n2 == n1 - 1
        T1 == n - n2 * team
        start == IF tid <= T1 THEN tid * n1 ELSE T1 * n1 + (tid - T1) * n2
        mine  == IF tid < T1 THEN n1 ELSE n2
    IN  IF team <= 1 \/ n = 0 THEN <<0, n>> ELSE <<start, start + mine>>

-----------------------------------------------------------------------------
MinNjobs(b) == Greatest(1, b.njobs \div b.nthr)
MaxNjobs(b) == Greatest(1, b.max_buffer_size \div (b.nthr * b.job_size))

\* The balance that goes with c jobs per group.
Assumption(b, c) ==
    LET ngroups == Least(b.njobs \div c, b.nthr)
    IN  [ngroups |-> ngroups,
         nthr_per_group |->
            IF b.allow THEN Least(b.nthr \div ngroups, b.reduction_size) ELSE 1,
         njobs_per_group_ub |-> DivUp(b.njobs, ngroups)]

Complexity(b, g) ==
    b.job_size * g.njobs_per_group_ub
        * (DivUp(b.reduction_size, g.nthr_per_group)
            + (IF g.nthr_per_group # 1 THEN 1 ELSE 0))

\* Mutant of Fits: the partial results of a group have no bound.
FitsAlways(b, g) == TRUE

Fits(b, g) ==
    g.nthr_per_group > 1 => g.njobs_per_group_ub <= MaxNjobs(b)

\* The numbers of jobs per group that improve on the initial estimate.
Better(b) ==
    {c \in MinNjobs(b)..(b.njobs - 1) :
        /\ Fits(b, Assumption(b, c))
        /\ Complexity(b, Assumption(b, c))
            < b.njobs * b.job_size * b.reduction_size}

\* The loop keeps the first of the least complexity.
Best(b) ==
    {c \in Better(b) :
        \A d \in Better(b) :
            \/ Complexity(b, Assumption(b, c)) < Complexity(b, Assumption(b, d))
            \/ /\ Complexity(b, Assumption(b, c)) = Complexity(b, Assumption(b, d))
               /\ c <= d}

balance(b) ==
    Assumption(b,
        IF Best(b) = {} THEN MinNjobs(b) ELSE CHOOSE c \in Best(b) : TRUE)

grp_njobs(b, g, grp) ==
    IF grp >= g.ngroups THEN 0
    ELSE b.njobs \div g.ngroups
            + (IF grp < (b.njobs % g.ngroups) THEN 1 ELSE 0)

grp_job_off(b, g, grp) ==
    IF grp >= g.ngroups THEN b.njobs
    ELSE (b.njobs \div g.ngroups) * grp + Least(grp, b.njobs % g.ngroups)

\* The data elements one thread keeps of its group's partial results.
space_per_thread(b, g) == g.njobs_per_group_ub * b.job_size

-----------------------------------------------------------------------------
\* The assertions at the end of balance (the one on the buffer is about a buffer
\* with room for a job of every thread), and that the groups' jobs are all of
\* the jobs and fit in the space of a thread.
SoundBalance(b, g) ==
    /\ g.nthr_per_group > 1 =>
          /\ g.njobs_per_group_ub <= MaxNjobs(b)
          /\ b.max_buffer_size >= b.nthr * b.job_size =>
                g.njobs_per_group_ub * b.job_size * g.ngroups * g.nthr_per_group
                    <= b.max_buffer_size
    /\ g.ngroups * g.nthr_per_group <= b.nthr
    /\ grp_job_off(b, g, 0) = 0
    /\ \A grp \in 0..(g.ngroups - 1) :
          /\ grp_job_off(b, g, grp + 1) = grp_job_off(b, g, grp) + grp_njobs(b, g, grp)
          /\ grp_njobs(b, g, grp) \in 1..g.njobs_per_group_ub
=============================================================================
