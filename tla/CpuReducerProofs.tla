-------------------------- MODULE CpuReducerProofs --------------------------
(***************************************************************************)
(* Theorems on the running reducer, for any number of threads, rounds and  *)
(* executions and all reducers: the layout of ReducerLayoutProofs is that  *)
(* of every reducer in use, so the invariant of ReducerStepsProofs holds,  *)
(* and gives the reduced result.                                           *)
(***************************************************************************)
EXTENDS ReducerStepsProofs, ReducerLayoutProofs

-----------------------------------------------------------------------------
(* The reducers in use.                                                     *)

\* A reducer in use has a balance that its balancer has found, and is used by
\* the threads of one of its groups.
LEMMA UsesKnown ==
    ASSUME NEW u \in Uses, u.kind # "kernel"
    PROVE  /\ IsBalanced(u) /\ (u.kind = "1d" \/ Is2d(u)) /\ u.sync \in BOOLEAN
           /\ u.g.nthr_per_group = nthr /\ nthr \in Nat /\ nthr > 1
           /\ u.b.reduction_size \in Nat /\ nthr <= u.b.reduction_size
           /\ \E grp : UseOfGroup(u, grp)
<1>1. PICK b, kind : /\ u \in UsesOf(kind, b)
                     /\ \/ kind = "1d" /\ b \in Reducers
                        \/ kind = "2d" /\ b \in Reducers2d
  <2>1. u # Kernel
    BY DEF Kernel
  <2>2. \/ \E b \in Reducers : u \in UsesOf("1d", b)
        \/ \E b \in Reducers2d : u \in UsesOf("2d", b)
    BY <2>1, Zenon DEF Uses
  <2> QED
    BY <2>2, Zenon
<1> DEFINE r == [kind |-> kind, b |-> b, g |-> balance(b)]
<1>2. PICK sync \in BOOLEAN, grp \in 0..(balance(b).ngroups - 1) :
        /\ u = [kind |-> kind, b |-> b, g |-> balance(b), sync |-> sync,
                own |-> GroupLayout(r, grp).own, ptr |-> GroupLayout(r, grp).ptr,
                sums |-> GroupLayout(r, grp).sums]
        /\ nthr # 1 /\ balance(b).nthr_per_group = nthr
  BY <1>1 DEF UsesOf
<1>3. u.kind = kind /\ u.b = b /\ u.g = balance(b) /\ u.sync = sync /\ r = ReducerOf(u)
  BY <1>2, Zenon DEF ReducerOf
<1>4. UseOfGroup(u, grp)
  BY <1>2, <1>3 DEF UseOfGroup
<1>5. Sensible(b)
  BY <1>1, ReducersAssumption DEF Sensible
<1>6. IsBalanced(u)
  BY <1>1, <1>3, <1>5, FoundIsBalanced
<1>7. nthr <= b.reduction_size
  BY <1>2, <1>5, EnoughTerms
<1>8. ASSUME b \in Reducers2d, kind = "2d" PROVE Is2d(u)
  <2>1. /\ b.job_size_x \in Nat \ {0} /\ b.job_size_y \in Nat \ {0}
        /\ b.dst_x \in Nat \ {0} /\ b.dst_y \in Nat \ {0} /\ b.x_block \in Nat \ {0}
        /\ b.job_size = b.job_size_x * b.job_size_y
        /\ b.njobs = DivUp(b.dst_x, b.job_size_x) * DivUp(b.dst_y, b.job_size_y)
        /\ b.job_size_x % b.x_block = 0 /\ b.dst_x % b.x_block = 0
    BY <1>8, ReducersAssumption
  <2> QED
    BY <1>3, <1>6, <1>8, <2>1, Zenon DEF Is2d
<1>9. nthr \in Nat /\ nthr > 1 /\ b.reduction_size \in Nat
  BY <1>2, <1>3, <1>5, <1>6 DEF IsBalanced, Sensible
<1> QED
  BY <1>1, <1>2, <1>3, <1>4, <1>6, <1>7, <1>8, <1>9, Zenon

UseOK == use \in Uses

\* It holds of every reducer in use.
LEMMA UseHasFacts == ASSUME UseOK, IsReducer PROVE UseFacts /\ IsBalanced(use)
<1>1. /\ IsBalanced(use) /\ (use.kind = "1d" \/ Is2d(use)) /\ use.sync \in BOOLEAN
      /\ use.g.nthr_per_group = nthr /\ nthr \in Nat /\ nthr > 1
      /\ use.b.reduction_size \in Nat /\ nthr <= use.b.reduction_size
  BY UsesKnown DEF UseOK, IsReducer
<1>2. PICK grp : UseOfGroup(use, grp)
  BY UsesKnown, Zenon DEF UseOK, IsReducer
<1>3. Members(use) = Threads
  BY <1>1, NumbersAssumption, Zenon DEF Members
<1>4. SharedOut(use, Threads) /\ WellPlaced(use, Threads)
  BY <1>1, <1>2, <1>3, GroupPlaced
<1>5. WellWorked(use, Threads)
  BY <1>1, <1>3, GroupWorked
<1>6. use.kind \in {"1d", "2d"}
  BY <1>1, Zenon DEF IsBalanced
<1> QED
  BY <1>1, <1>4, <1>5, <1>6, Zenon DEF UseFacts

\* No step changes what the threads meet for.
LEMMA UseKept == ReducerSpec => []UseOK
<1>1. ReducerInit => UseOK
  BY Zenon DEF ReducerInit, UseOK
<1>2. ASSUME UseOK, [ReducerNext]_allVars
      PROVE  UseOK'
  <2> SUFFICES use' = use
    BY <1>2, Zenon DEF UseOK
  <2>1. ASSUME NEW t \in Threads, Compute(t) PROVE use' = use
    BY <2>1, Zenon DEF Compute
  <2>2. ASSUME NEW t \in Threads, Meet(t) PROVE use' = use
    BY <2>2, Zenon DEF Meet
  <2>3. ASSUME NEW t \in Threads, reduce_nolock(t) PROVE use' = use
    BY <2>3, Zenon DEF reduce_nolock
  <2>4. CASE Join
    BY <1>2, <2>4, Zenon DEF Join
  <2>5. CASE Execute
    BY <1>2, <2>5, Zenon DEF Execute
  <2>6. CASE UNCHANGED allVars
    BY <1>2, <2>6, Zenon DEF allVars, reducerVars
  <2> QED
    BY <1>2, <2>1, <2>2, <2>3, <2>4, <2>5, <2>6 DEF ReducerNext, ThreadStep, Finished
<1> QED
  BY <1>1, <1>2, PTL DEF ReducerSpec

\* Hence what UseFacts says is known in every state.
LEMMA UseAlwaysKnown == ReducerSpec => []UseInv
<1>1. UseOK => UseInv
  BY UseHasFacts, Zenon DEF UseInv
<1> QED
  BY <1>1, UseKept, PTL

\* The assertions at the end of reduce_balancer_t::balance hold whatever it is
\* made from, and the groups' jobs are all of the jobs.
THEOREM BalanceAlwaysSound == ReducerSpec => []BalanceSound
<1>1. ASSUME UseOK PROVE BalanceSound
  BY <1>1, UseHasFacts, BalancedIsSound DEF BalanceSound
<1> QED
  BY <1>1, UseKept, PTL

\* No two threads, of one group or of two, put their partial results in the
\* same place, and what init_scratchpad books is enough, for every balance.
THEOREM PartialsAlwaysApart == ReducerSpec => []PartialsApart
<1>1. ASSUME UseOK PROVE PartialsApart
  BY <1>1, UseHasFacts, BalancedIsDisjoint DEF PartialsApart
<1> QED
  BY <1>1, UseKept, PTL

\* No two threads of a group sum up the same element of the result: what
\* reduce_nolock sets is apart, for every balance, block and size of the result.
THEOREM SumsAlwaysApart == ReducerSpec => []SumsApart
<1>1. ASSUME UseOK PROVE SumsApart
  <2> SUFFICES ASSUME IsReducer PROVE SharedOut(use, Threads)
    BY DEF SumsApart, SharedOut
  <2> QED
    BY <1>1, UseHasFacts DEF UseFacts
<1> QED
  BY <1>1, UseKept, PTL

-----------------------------------------------------------------------------
(* The running reducer.                                                     *)

\* Every behaviour of the threads of a group, and of jitted code at its barriers,
\* satisfies the inductive invariant.
THEOREM ReducerInvariance == ReducerSpec => []ReducerInv
<1>1. ReducerInit => ReducerInv
  BY ReducerInitInv
<1>2. ASSUME UseInv, ReducerInv, [ReducerNext]_allVars
      PROVE  ReducerInv'
  <2>1. ASSUME NEW t \in Threads, ThreadStep(t) PROVE ReducerInv'
    BY <1>2, <2>1, ComputeInv, MeetInv, ReduceInv DEF ThreadStep
  <2>2. CASE UNCHANGED allVars
    <3>1. UNCHANGED vars /\ UNCHANGED <<ctr, sense, pc, tmp, round, use, exec, stage, dst, space>>
      BY <2>2 DEF allVars, reducerVars, vars
    <3>2. IInv'
      BY <1>2, <3>1, BarrierStays DEF ReducerInv
    <3>3. (StageInv' <=> StageInv) /\ (MemoryInv' <=> MemoryInv) /\ (IsReducer' <=> IsReducer)
      BY <3>1 DEF StageInv, Stages, MemoryInv, IsReducer
    <3> QED
      BY <1>2, <3>1, <3>2, <3>3 DEF ReducerInv
  <2> QED
    BY <1>2, <2>1, <2>2, JoinInv, ExecuteInv DEF ReducerNext, Finished
<1> QED
  BY <1>1, <1>2, UseAlwaysKnown, PTL DEF ReducerSpec

\* When the threads of a group have returned from reduce, every element of the
\* group's jobs is the sum of all the terms of this execution, each taken once,
\* and no other element is touched: for any number of threads, any reducer, and
\* any number of executions.
THEOREM ReductionAlwaysComplete == ReducerSpec => []ReductionComplete
<1>1. ASSUME UseInv, ReducerInv PROVE ReductionComplete
  <2> SUFFICES ASSUME IsReducer, \A t \in Threads : stage[t] = "done", NEW d \in DOMAIN dst
               PROVE  dst[d] = IF d \in DOMAIN use.own
                               THEN Terms(exec, 0..(use.b.reduction_size - 1)) ELSE Stale
    BY Zenon DEF ReductionComplete
  <2>1. UseFacts /\ MemoryInv
    BY <1>1, Zenon DEF ReducerInv, UseInv
  <2>2. CASE d \in DOMAIN use.own
    <3>1. PICK t \in Threads : d \in DOMAIN use.sums[t]
      BY <2>1, <2>2 DEF UseFacts, SharedOut
    <3> QED
      BY <2>1, <2>2, <3>1, Zenon DEF MemoryInv
  <2>3. CASE d \notin DOMAIN use.own
    BY <2>1, <2>3, Zenon DEF MemoryInv
  <2> QED
    BY <2>2, <2>3
<1> QED
  BY <1>1, ReducerInvariance, UseAlwaysKnown, PTL

\* The barrier keeps its promise where the reducers and jitted code use it: no
\* thread leaves it before every thread has arrived.
THEOREM NoEarlyExitInReducer == ReducerSpec => []NoEarlyExit
<1>1. ReducerInv => NoEarlyExit
  <2> SUFFICES ASSUME ReducerInv, NEW t \in Threads, NEW u \in Threads, round[u] < round[t]
               PROVE  round[u] + 1 = round[t] /\ pc[u] = "spin"
    BY DEF NoEarlyExit
  <2>1. Passed(t) = Passed(u) /\ round[t] \in Nat /\ round[u] \in Nat
    BY DEF ReducerInv, IInv, PassedInv, TypeOK
  <2> QED
    BY <2>1 DEF Passed, Released
<1> QED
  BY <1>1, ReducerInvariance, PTL

\* The arrival counter stays between 0 and the number of threads there.
THEOREM TypeCorrectInReducer == ReducerSpec => []TypeOK
<1>1. ReducerInv => TypeOK
  BY DEF ReducerInv, IInv
<1> QED
  BY <1>1, ReducerInvariance, PTL
=============================================================================
