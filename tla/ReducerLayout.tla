--------------------------- MODULE ReducerLayout ----------------------------
(***************************************************************************)
(* Where the threads of cpu_reducer_t ("1d") and cpu_reducer_2d_t ("2d")   *)
(* of cpu/x64/cpu_reducer.cpp put their partial results, and which         *)
(* elements of the result each of them sums up.  A reducer r has its kind, *)
(* what its balancer is made from, r.b, and the balance, r.g.              *)
(***************************************************************************)
EXTENDS ReduceBalancer

CONSTANT Line  \* the data elements of a cache line

ASSUME LineAssumption == Line \in Nat \ {0}

group_id(r, i) == i \div r.g.nthr_per_group
id_in_group(r, i) == i % r.g.nthr_per_group
ithr_njobs(r, i) == grp_njobs(r.b, r.g, group_id(r, i))
ithr_job_off(r, i) == grp_job_off(r.b, r.g, group_id(r, i))
SpacePerThread(r) == space_per_thread(r.b, r.g)

\* The threads of a group that have a part of the scratchpad: the master of a
\* cpu_reducer_t uses the result itself.
Owners(r) == r.g.nthr_per_group - (IF r.kind = "1d" THEN 1 ELSE 0)

\* init_scratchpad
SpaceSize(r) == r.g.ngroups * Owners(r) * SpacePerThread(r)

DstSize(r) ==
    IF r.kind = "1d" THEN r.b.njobs * r.b.job_size ELSE r.b.dst_x * r.b.dst_y

\* Mutant of get_local_ptr: the master has a part of the scratchpad as well.
get_local_ptr_gap(r, i) ==
    IF r.kind = "1d" /\ id_in_group(r, i) = 0
    THEN [mem |-> "dst", off |-> ithr_job_off(r, i) * r.b.job_size]
    ELSE [mem |-> "space",
          off |-> (group_id(r, i) * r.g.nthr_per_group + id_in_group(r, i))
                    * SpacePerThread(r)]

get_local_ptr(r, i) ==
    IF r.kind = "1d" /\ id_in_group(r, i) = 0
    THEN [mem |-> "dst", off |-> ithr_job_off(r, i) * r.b.job_size]
    ELSE [mem |-> "space",
          off |-> (group_id(r, i) * Owners(r)
                    + id_in_group(r, i) - (IF r.kind = "1d" THEN 1 ELSE 0))
                    * SpacePerThread(r)]

\* Where a job of the group of thread i is in a two-dimensional result.
JobBox(r, i, job) ==
    LET njobs_x == DivUp(r.b.dst_x, r.b.job_size_x)
        global_job == ithr_job_off(r, i) + job
        start_y == (global_job \div njobs_x) * r.b.job_size_y
        start_x == (global_job % njobs_x) * r.b.job_size_x
    IN  [y |-> start_y, ny |-> Least(r.b.dst_y - start_y, r.b.job_size_y),
         x |-> start_x, nx |-> Least(r.b.dst_x - start_x, r.b.job_size_x)]

\* reduce_block: the elements of the result it sets, each with the element of
\* a thread's partial results that is summed up in it.
reduce_block(r, i, job, ny_start, nx_start, ny_step, nx_step) ==
    LET box == JobBox(r, i, job)
    IN  {<<(box.y + ny_start + y) * r.b.dst_x + box.x + nx_start + x,
           job * r.b.job_size + (ny_start + y) * r.b.job_size_x + nx_start + x>> :
            y \in 0..(ny_step - 1), x \in 0..(nx_step - 1)}

\* All the elements of the jobs of the group of thread i, in the same way.
JobElements(r, i) ==
    IF r.kind = "1d"
    THEN {<<ithr_job_off(r, i) * r.b.job_size + e, e>> :
            e \in 0..(ithr_njobs(r, i) * r.b.job_size - 1)}
    ELSE UNION {reduce_block(r, i, j, 0, 0, JobBox(r, i, j).ny, JobBox(r, i, j).nx) :
                j \in 0..(ithr_njobs(r, i) - 1)}

\* cpu_reducer_t::reduce_nolock: the threads share out whole cache lines.
Reduce1d(r, i) ==
    LET id == id_in_group(r, i)
        size == ithr_njobs(r, i) * r.b.job_size
        lines == Balance211(DivUp(size, Line), r.g.nthr_per_group, id)
        d == get_local_ptr(r, i - id).off
    IN  {<<d + e, e>> : e \in (lines[1] * Line)..(Least(lines[2] * Line, size) - 1)}

\* The loop of choose_x_blocking.
Shrink(x, min) ==
    LET f[n \in Nat] ==
            IF (n % 2) = 0 /\ n >= min * 2 THEN f[n \div 2]
            ELSE IF (n % 3) = 0 /\ n >= min * 3 THEN f[n \div 3]
            ELSE n
    IN  f[x]

choose_x_blocking(r, nx, ny, nthr_per_grp) ==
    LET blocks == nx \div r.b.x_block
        min == DivUp(blocks, Greatest(1, nthr_per_grp \div ny))
        x == Shrink(blocks, min)
    IN  (IF x >= min * 4 THEN 1 ELSE x) * r.b.x_block

\* A pass of the loop over the jobs: the rest of a row, whole rows, and the
\* beginning of the last row.
ReduceJob(r, i, job, nthr_per_grp, id) ==
    LET nx == JobBox(r, i, job).nx
        ny == JobBox(r, i, job).ny
        xb == choose_x_blocking(r, nx, ny, nthr_per_grp)
        part == Balance211((ny * nx) \div xb, nthr_per_grp, id)
        end == part[2] * xb
        n0 == part[1] * xb
        rest == IF (n0 % nx) # 0 THEN Least(nx - (n0 % nx), end - n0) ELSE 0
        n1 == n0 + rest
        rows == IF end - n1 > nx THEN (end - n1) \div nx ELSE 0
        n2 == n1 + nx * rows
    IN  IF part[1] = part[2] THEN {}
        ELSE reduce_block(r, i, job, n0 \div nx, n0 % nx, 1, rest)
                \cup reduce_block(r, i, job, n1 \div nx, n1 % nx, rows, nx)
                \cup reduce_block(r, i, job, n2 \div nx, n2 % nx, 1, end - n2)

\* cpu_reducer_2d_t::reduce_nolock: the threads share out the jobs and, in
\* teams of pr_nthr, the elements of a job.
Reduce2d(r, i) ==
    LET id == id_in_group(r, i)
        pr_grps == Least(ithr_njobs(r, i), r.g.nthr_per_group)
        pr_nthr == r.g.nthr_per_group \div pr_grps
        jobs == Balance211(ithr_njobs(r, i), pr_grps, id \div pr_nthr)
    IN  IF id >= pr_grps * pr_nthr THEN {}
        ELSE UNION {ReduceJob(r, i, j, pr_nthr, id % pr_nthr) :
                    j \in jobs[1]..(jobs[2] - 1)}

\* A set of pairs, as a function.
AsFunction(pairs) ==
    [d \in {p[1] : p \in pairs} |-> (CHOOSE p \in pairs : p[1] = d)[2]]

\* The work of group grp: the elements of its jobs, where its threads put their
\* partial results, and the elements that each of them sums up.
GroupLayout(r, grp) ==
    LET threads == 0..(r.g.nthr_per_group - 1)
        ithr(t) == grp * r.g.nthr_per_group + t
        Sums(i) == IF r.kind = "1d" THEN Reduce1d(r, i) ELSE Reduce2d(r, i)
    IN  [own |-> AsFunction(JobElements(r, ithr(0))),
         ptr |-> [t \in threads |-> get_local_ptr(r, ithr(t))],
         sums |-> [t \in threads |-> AsFunction(Sums(ithr(t)))]]

\* What threads i and j put in the same memory are different parts of it, and
\* there is room for what i puts.
DisjointPartials(r) ==
    LET n == r.g.ngroups * r.g.nthr_per_group
        ptr(i) == get_local_ptr(r, i)
        end(i) == ptr(i).off + ithr_njobs(r, i) * r.b.job_size
    IN  \A i \in 0..(n - 1) :
          /\ end(i) <= IF ptr(i).mem = "dst" THEN DstSize(r) ELSE SpaceSize(r)
          /\ \A j \in 0..(i - 1) :
                ptr(i).mem = ptr(j).mem =>
                    end(i) <= ptr(j).off \/ end(j) <= ptr(i).off

-----------------------------------------------------------------------------
(* What the threads of a group may rely on: u is a use of a reducer by the  *)
(* threads T of a group.                                                    *)

\* The threads of a group in use share out the elements of its jobs: own and
\* sums as functions.
SharedOut(u, T) ==
    /\ \A t \in T : DOMAIN u.sums[t] \subseteq DOMAIN u.own
    /\ \A d \in DOMAIN u.own : \E t \in T : d \in DOMAIN u.sums[t]
    /\ \A t, v \in T : t # v => DOMAIN u.sums[t] \cap DOMAIN u.sums[v] = {}
    /\ \A t \in T : \A d \in DOMAIN u.sums[t] : u.sums[t][d] = u.own[d]
    /\ DOMAIN u.own \subseteq 0..(DstSize(u) - 1)

\* The terms that thread t of the group computes.
Work(u, t) ==
    Balance211(u.b.reduction_size, u.g.nthr_per_group, t)[1]
        ..(Balance211(u.b.reduction_size, u.g.nthr_per_group, t)[2] - 1)

\* The thread that has its partial results in the result itself.
OnResult(u, t) == u.kind = "1d" /\ t = 0

\* The elements of partial results that the group's jobs have.
Elems(u) == {u.own[d] : d \in DOMAIN u.own}

\* Every thread has terms of the reduction, no two the same, and together all.
WellWorked(u, T) ==
    /\ \A t \in T :
            Balance211(u.b.reduction_size, u.g.nthr_per_group, t)[1]
                # Balance211(u.b.reduction_size, u.g.nthr_per_group, t)[2]
    /\ \A t, v \in T : t # v => Work(u, t) \cap Work(u, v) = {}
    /\ UNION {Work(u, t) : t \in T} = 0..(u.b.reduction_size - 1)

\* The threads' partial results: the place of each element in memory is that of
\* no other, is in memory, and is where the reduction driver looks for it.
WellPlaced(u, T) ==
    /\ \A t \in T : u.ptr[t].mem = IF OnResult(u, t) THEN "dst" ELSE "space"
    /\ \A t \in T : OnResult(u, t) =>
            \A d \in 0..(DstSize(u) - 1) : d - u.ptr[t].off \in Elems(u) <=> d \in DOMAIN u.own
    /\ \A t \in T : ~OnResult(u, t) =>
            \A e \in Elems(u) :
                /\ u.ptr[t].off + e \in 0..(SpaceSize(u) - 1)
                /\ \A v \in T : ~OnResult(u, v) =>
                        ((u.ptr[t].off + e) - u.ptr[v].off \in Elems(u) <=> v = t)
    /\ \A k \in 0..(Owners(u) - 1) :
            /\ u.g.nthr_per_group - Owners(u) + k \in T
            /\ ~OnResult(u, u.g.nthr_per_group - Owners(u) + k)
            /\ \A e \in Elems(u) :
                    u.ptr[u.g.nthr_per_group - Owners(u)].off + e + k * SpacePerThread(u)
                        = u.ptr[u.g.nthr_per_group - Owners(u) + k].off + e
    /\ \A t \in T : ~OnResult(u, t) =>
            \E k \in 0..(Owners(u) - 1) : t = u.g.nthr_per_group - Owners(u) + k
=============================================================================
