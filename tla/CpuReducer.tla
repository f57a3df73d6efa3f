----------------------------- MODULE CpuReducer -----------------------------
(***************************************************************************)
(* cpu_reducer_t and cpu_reducer_2d_t of cpu/x64/cpu_reducer.cpp, as the   *)
(* backward convolutions use them: the threads of a group compute partial  *)
(* results, each over its part of the reduction dimension, meet, and then  *)
(* sum the partial results, each for its part of the result.  The threads  *)
(* are those of one group, and they meet at the barrier of SimpleBarrier.  *)
(* Where the threading runtime cannot synchronize threads they meet by     *)
(* ending the parallel section.  Jitted kernels use the barrier alone,     *)
(* several times over.                                                     *)
(***************************************************************************)
EXTENDS SimpleBarrier, ReducerLayout, Bags, Functions

CONSTANTS
    Reducers,  \* the cpu_reducer_t there are: what their balancers are made from
    Reducers2d \* the cpu_reducer_2d_t: as above with job_size_x, job_size_y,
               \* x_block, dst_x and dst_y

\* What the assertion of balance asks for; the jobs of a cpu_reducer_2d_t are
\* those its result is cut into, and have rows of whole blocks, as the assertion
\* of choose_x_blocking says.
ASSUME ReducersAssumption ==
    /\ \A b \in Reducers \cup Reducers2d :
            /\ {b.nthr, b.job_size, b.njobs, b.reduction_size} \subseteq Nat \ {0}
            /\ b.max_buffer_size \in Nat
            /\ b.allow \in BOOLEAN
    /\ \A b \in Reducers2d :
            /\ {b.job_size_x, b.job_size_y, b.x_block, b.dst_x, b.dst_y} \subseteq Nat \ {0}
            /\ b.job_size = b.job_size_x * b.job_size_y
            /\ b.njobs = DivUp(b.dst_x, b.job_size_x) * DivUp(b.dst_y, b.job_size_y)
            /\ b.job_size_x % b.x_block = 0 /\ b.dst_x % b.x_block = 0

\* The threads are known by their numbers in the group.
ASSUME NumbersAssumption == Threads = 0..(nthr - 1)

VARIABLES
    use,    \* what the threads meet for; what depends on it alone is part of it
    exec,   \* the number of the execution
    stage,  \* where each thread is in it
    dst,    \* the result, and
    space   \* key_reducer_space of the scratchpad: what was summed up in an element

reducerVars == <<use, exec, stage, dst, space>>
allVars == <<vars, reducerVars>>

\* The sum in an element that nobody has written.
Stale == SetToBag({<<0, 0>>})

\* The sum of terms of the reduction in an execution.
Terms(n, part) == SetToBag({<<n, r>> : r \in part})

-----------------------------------------------------------------------------
\* The jitted kernel's use, and those of reducers in which the threads are
\* those of one of their groups: own has the elements of the group's jobs, and
\* sums those of them that a thread sums up.  A group of one does not reduce.
Kernel == [kind |-> "kernel"]

UsesOf(kind, b) ==
    LET g == balance(b)
        r == [kind |-> kind, b |-> b, g |-> g]
    IN  IF nthr = 1 \/ g.nthr_per_group # nthr THEN {}
        ELSE {[kind |-> kind, b |-> b, g |-> g, sync |-> sync,
               own |-> l.own, ptr |-> l.ptr, sums |-> l.sums] :
                    sync \in BOOLEAN, l \in {GroupLayout(r, grp) : grp \in 0..(g.ngroups - 1)}}

Uses ==
    {Kernel} \cup (UNION {UsesOf("1d", b) : b \in Reducers})
             \cup (UNION {UsesOf("2d", b) : b \in Reducers2d})

-----------------------------------------------------------------------------
IsReducer == use.kind # "kernel"

ReducerInit ==
    /\ Init
    /\ use \in Uses
    /\ exec = 1
    /\ stage = [t \in Threads |-> IF IsReducer THEN "compute" ELSE "meet"]
    /\ dst = IF IsReducer THEN [e \in 0..(DstSize(use) - 1) |-> Stale] ELSE << >>
    /\ space = IF IsReducer THEN [e \in 0..(SpaceSize(use) - 1) |-> Stale] ELSE << >>

\* Mutant of Compute: the threads do not meet before they reduce.
ComputeUnmet(t) ==
    LET ptr == use.ptr[t]
        part == Balance211(use.b.reduction_size, use.g.nthr_per_group, t)
        terms == Terms(exec, part[1]..(part[2] - 1))
        elems == {use.own[d] : d \in DOMAIN use.own}
        Put(mem) == IF part[1] = part[2] THEN mem
                    ELSE [e \in DOMAIN mem |->
                            IF e - ptr.off \in elems THEN terms ELSE mem[e]]
    IN  /\ stage[t] = "compute"
        /\ dst' = IF ptr.mem = "dst" THEN Put(dst) ELSE dst
        /\ space' = IF ptr.mem = "space" THEN Put(space) ELSE space
        /\ stage' = [stage EXCEPT ![t] = "reduce"]
        /\ UNCHANGED <<vars, use, exec>>

\* The convolution: a thread puts the terms of its part of the reduction
\* dimension where get_local_ptr says; one with no part writes nothing.
Compute(t) ==
    LET ptr == use.ptr[t]
        part == Balance211(use.b.reduction_size, use.g.nthr_per_group, t)
        terms == Terms(exec, part[1]..(part[2] - 1))
        elems == {use.own[d] : d \in DOMAIN use.own}
        Put(mem) == IF part[1] = part[2] THEN mem
                    ELSE [e \in DOMAIN mem |->
                            IF e - ptr.off \in elems THEN terms ELSE mem[e]]
    IN  /\ stage[t] = "compute"
        /\ dst' = IF ptr.mem = "dst" THEN Put(dst) ELSE dst
        /\ space' = IF ptr.mem = "space" THEN Put(space) ELSE space
        /\ stage' = [stage EXCEPT ![t] = IF use.sync THEN "meet" ELSE "joined"]
        /\ UNCHANGED <<vars, use, exec>>

\* A step of simple_barrier::barrier; after it a thread of a reducer goes on
\* to reduce_nolock, jitted code to its next barrier.
Meet(t) ==
    /\ stage[t] = "meet"
    /\ Step(t)
    /\ stage' = [stage EXCEPT ![t] =
                    IF IsReducer /\ round'[t] # round[t] THEN "reduce" ELSE "meet"]
    /\ UNCHANGED <<use, exec, dst, space>>

\* The parallel section ends and the one for reduce_nolock begins.
Join ==
    /\ \A t \in Threads : stage[t] = "joined"
    /\ stage' = [t \in Threads |-> "reduce"]
    /\ round' = [t \in Threads |-> round[t] + 1]
    /\ UNCHANGED <<ctr, sense, pc, tmp, use, exec, dst, space>>

\* The reduction driver: the sum of an element of all the partial results in
\* the scratchpad, added to what the result has unless nullify_dst.
Driver(d, e) ==
    LET at(k) == use.ptr[nthr - Owners(use)].off + e + k * SpacePerThread(use)
        src == [k \in 0..(Owners(use) - 1) |->
                    IF at(k) \in DOMAIN space THEN space[at(k)] ELSE Stale]
    IN  FoldFunction(LAMBDA x, y : x (+) y,
                     IF use.kind = "1d" THEN dst[d] ELSE EmptyBag, src)

\* Its loads and stores are those of no other thread: they make one step.
reduce_nolock(t) ==
    LET sums == use.sums[t]
    IN  /\ stage[t] = "reduce"
        /\ dst' = [d \in DOMAIN dst |->
                    IF d \in DOMAIN sums THEN Driver(d, sums[d]) ELSE dst[d]]
        /\ stage' = [stage EXCEPT ![t] = "done"]
        /\ UNCHANGED <<vars, use, exec, space>>

\* The primitive is executed again: init, from a single thread.
Execute ==
    /\ IsReducer
    /\ \A t \in Threads : stage[t] = "done"
    /\ exec < MaxRounds
    /\ exec' = exec + 1
    /\ stage' = [t \in Threads |-> "compute"]
    /\ IF use.sync THEN ctr' = 0 /\ sense' = 0 ELSE UNCHANGED <<ctr, sense>>
    /\ UNCHANGED <<pc, tmp, round, use, dst, space>>

ThreadStep(t) == Compute(t) \/ Meet(t) \/ reduce_nolock(t)

\* Everything has been executed.
Finished ==
    /\ \A t \in Threads :
            round[t] = MaxRounds /\ stage[t] = (IF IsReducer THEN "done" ELSE "meet")
    /\ UNCHANGED allVars

ReducerNext == (\E t \in Threads : ThreadStep(t)) \/ Join \/ Execute \/ Finished

ReducerSpec == ReducerInit /\ [][ReducerNext]_allVars

\* The threads of a parallel section all run, and the section ends.  That the
\* application executes the primitive MaxRounds times is assumed as well, for
\* EveryRoundEnds to speak of the last round.
FairReducerSpec ==
    /\ ReducerSpec
    /\ \A t \in Threads : WF_allVars(ThreadStep(t))
    /\ WF_allVars(Join)
    /\ WF_allVars(Execute)

-----------------------------------------------------------------------------
\* When the threads of a group have returned from reduce, every element of
\* the group's jobs is the sum of all the terms of this execution, each taken
\* once and none left over from an earlier one, and no other is touched.
ReductionComplete ==
    IsReducer /\ (\A t \in Threads : stage[t] = "done") =>
        \A d \in DOMAIN dst :
            dst[d] = IF d \in DOMAIN use.own
                     THEN Terms(exec, 0..(use.b.reduction_size - 1)) ELSE Stale

\* No two threads of one group or of two put their partial results in the same
\* place, and all have room for them in what init_scratchpad has booked.
PartialsApart == IsReducer => DisjointPartials(use)

\* No two threads of a group sum up the same element of the result.
SumsApart ==
    IsReducer =>
        \A t, u \in Threads :
            t # u => DOMAIN use.sums[t] \cap DOMAIN use.sums[u] = {}

\* The assertions at the end of balance, and that the groups' jobs are all of
\* the jobs and fit in the space of a thread.  The assertion on the buffer is
\* about one with room for a job of every thread.
BalanceSound == IsReducer => SoundBalance(use.b, use.g)
=============================================================================
