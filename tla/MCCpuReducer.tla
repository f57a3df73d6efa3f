---------------------------- MODULE MCCpuReducer ----------------------------
(* An instance of CpuReducer for TLC: four threads, as a jitted kernel's     *)
(* team and as a group of every reducer whose balancer forms groups of four. *)
EXTENDS CpuReducer

FourThreads == 0..3

Balancer(n, size, jobs, red, room) ==
    [nthr |-> n, job_size |-> size, njobs |-> jobs, reduction_size |-> red,
     max_buffer_size |-> room * n * size, allow |-> TRUE]

\* One group or two, one job or several in a group, jobs that are not a whole
\* number of cache lines; room for all the jobs of a group. With room for one
\* job only the balancer forms groups of one thread, which do not reduce: those
\* two are here for the balancer, which must not give them larger groups.
SmallReducers ==
    {Balancer(4, 5, 1, 6, 1), Balancer(9, 3, 2, 4, 1)}
        \cup {Balancer(4, 3, 3, 16, room) : room \in {1, 3}}
        \cup {Balancer(9, 3, 5, 16, room) : room \in {1, 3}}

\* As above; jobs at the right and at the lower edge may be smaller.
Balancer2d(n, jx, jy, xb, dx, dy, red) ==
    LET b == Balancer(n, jx * jy, DivUp(dx, jx) * DivUp(dy, jy), red, 8)
    IN  [nthr |-> b.nthr, job_size |-> b.job_size, njobs |-> b.njobs,
         reduction_size |-> b.reduction_size,
         max_buffer_size |-> b.max_buffer_size, allow |-> b.allow,
         job_size_x |-> jx, job_size_y |-> jy, x_block |-> xb,
         dst_x |-> dx, dst_y |-> dy]

SmallReducers2d ==
    {Balancer2d(4, 6, 2, 1, 6, 2, 4), Balancer2d(4, 4, 6, 1, 4, 6, 5),
     Balancer2d(4, 4, 2, 1, 10, 2, 16), Balancer2d(9, 4, 2, 2, 4, 9, 16)}
=============================================================================
